---- MODULE Spec2Model ----
(***************************************************************************)
(* Grocery ledger: month documents kept in one MongoDB collection per      *)
(* year, written by the HTTP transaction endpoint (app.py add_transaction) *)
(* and by the chat /purchase and /payment commands (telegram_bot.py        *)
(* _process_transaction_command).  Every call on the document store is one *)
(* step of a request, so requests interleave at the store boundary.        *)
(***************************************************************************)
EXTENDS Integers, Sequences, FiniteSets, TLC

\* ------------------------------------------------------------------ bounds
NumRequests == 2        \* requests received in one behaviour

\* ------------------------------------------------------------------ constants
MONTHS == << "January", "February", "March", "April", "May", "June",
             "July", "August", "September", "October", "November", "December" >>

TRANSACTION_TYPE_PURCHASE == "purchase"
TRANSACTION_TYPE_PAYMENT == "payment"

MonthNames == { MONTHS[i] : i \in DOMAIN MONTHS }

\* Collections the model's requests can touch (one per year) and the years
\* whose January is looked at.
Years == { 2025, 2026 }

\* Dates a request may carry, as the (year, month, day) fields of the
\* YYYY-MM-DD text; the last one does not denote a calendar date.
Dates == { <<2025, 12, 31>>, <<2026, 1, 15>>, <<2026, 2, 20>>, <<2026, 12, 5>>,
           <<2026, 2, 30>> }

\* The one month the requests of SpecOneMonth are dated in.
JanuaryDates == { <<2026, 1, 15>> }

\* Amounts a request may carry: negative, zero and two positive ones.
Amounts == { -1, 0, 1, 2 }

Types == { TRANSACTION_TYPE_PURCHASE, TRANSACTION_TYPE_PAYMENT, "refund" }

Vias == { "http", "chat" }

\* The server's workers: at most two requests are in flight at a time.
Workers == { 1, 2 }

Keys == Years \X MonthNames

\* ------------------------------------------------------------------ documents
RECURSIVE SumAmounts(_)
\* sum(x.get('amount', 0) for x in items)
SumAmounts(items) ==
    IF items = << >> THEN 0 ELSE Head(items).amount + SumAmounts(Tail(items))

\* The value of a Python name bound to None, in the shape of a document.
NoDoc == [ month |-> "None", daily_expenses |-> << >>, credits |-> << >>,
           total_expense |-> 0, balance |-> 0 ]

VARIABLES
    db,            \* db[year]: the collection of that year, documents in natural order
    uniqueIndex,   \* whether the deployment's collections reject a second document of a month
    db0,           \* the store as it was when the behaviour started
    req,           \* req[w]: the inputs, position and locals of worker w's request
    received,      \* number of requests received so far
    appended,      \* appended[key][type]: sum of the amounts of the requests that completed
    chat,          \* chat[w]: the chat message worker w's webhook call is handling
    today          \* datetime.now(), as (year, month, day)

vars == << db, uniqueIndex, db0, req, received, appended, chat, today >>

\* db[str(year)]: a collection that was never written to is empty
get_collection_by_year(year) ==
    IF year \in DOMAIN db THEN db[year] ELSE << >>

\* The position of the first document of the collection with that month, 0 if none.
FirstMatch(coll, month_name) ==
    IF \E i \in DOMAIN coll : coll[i].month = month_name
    THEN CHOOSE i \in DOMAIN coll :
            /\ coll[i].month = month_name
            /\ \A j \in DOMAIN coll : coll[j].month = month_name => i <= j
    ELSE 0

\* collection.find_one({"month": month_name})
find_one(coll, month_name) ==
    IF FirstMatch(coll, month_name) = 0 THEN NoDoc ELSE coll[FirstMatch(coll, month_name)]

\* Faulty variant: the index is stepped forward instead of back.
get_next_month_name(month_name) ==
    IF month_name \in MonthNames
    THEN LET current_index == (CHOOSE i \in DOMAIN MONTHS : MONTHS[i] = month_name) - 1
             previous_index == (current_index + 1) % 12
         IN MONTHS[previous_index + 1]
    ELSE "None"

\* MONTHS[(MONTHS.index(month_name) - 1) % 12], None for an unknown name
get_previous_month_name(month_name) ==
    IF month_name \in MonthNames
    THEN LET current_index == (CHOOSE i \in DOMAIN MONTHS : MONTHS[i] = month_name) - 1
             previous_index == (current_index - 1) % 12
         IN MONTHS[previous_index + 1]
    ELSE "None"

\* Faulty variant: January is not special-cased, December of the same year is read.
previous_balance_same_year(month_name, year) ==
    LET previous_month_name == get_previous_month_name(month_name) IN
    IF previous_month_name = "None" THEN 0
    ELSE LET prev_doc == find_one(get_collection_by_year(year), previous_month_name)
         IN IF prev_doc # NoDoc THEN prev_doc.balance ELSE 0

get_previous_month_balance(month_name, year) ==
    LET previous_month_name == get_previous_month_name(month_name) IN
    IF previous_month_name = "None" THEN 0
    ELSE IF month_name = "January"
         THEN LET prev_doc == find_one(get_collection_by_year(year - 1), "December")
              IN IF prev_doc # NoDoc THEN prev_doc.balance ELSE 0
         ELSE LET prev_doc == find_one(get_collection_by_year(year), previous_month_name)
              IN IF prev_doc # NoDoc THEN prev_doc.balance ELSE 0

create_month_skeleton(month_name, year) ==
    [ month |-> month_name, daily_expenses |-> << >>, credits |-> << >>,
      total_expense |-> 0, balance |-> get_previous_month_balance(month_name, year) ]

\* Faulty variant: the balance carried over from the previous month is dropped.
recalculate_without_previous(doc, previous_balance) ==
    LET total_expense == SumAmounts(doc.daily_expenses)
        total_credits == SumAmounts(doc.credits)
    IN [ doc EXCEPT !.total_expense = total_expense,
                    !.balance = total_expense - total_credits ]

\* Faulty variant: the sum of the purchases is added to the stored total.
recalculate_accumulating(doc, previous_balance) ==
    LET total_expense == doc.total_expense + SumAmounts(doc.daily_expenses)
        total_credits == SumAmounts(doc.credits)
    IN [ doc EXCEPT !.total_expense = total_expense,
                    !.balance = previous_balance + total_expense - total_credits ]

recalculate_month_totals(doc, previous_balance) ==
    LET total_expense == SumAmounts(doc.daily_expenses)
        total_credits == SumAmounts(doc.credits)
    IN [ doc EXCEPT !.total_expense = total_expense,
                    !.balance = previous_balance + total_expense - total_credits ]


\* ------------------------------------------------------------------ dates
IsLeapYear(y) == (y % 4 = 0 /\ y % 100 # 0) \/ y % 400 = 0

DaysInMonth(y, m) ==
    IF m = 2 THEN (IF IsLeapYear(y) THEN 29 ELSE 28)
    ELSE IF m \in {4, 6, 9, 11} THEN 30 ELSE 31

\* Whether datetime.strptime(date_str, "%Y-%m-%d") returns (it raises ValueError otherwise).
StrptimeOk(date) ==
    /\ date[2] \in 1 .. 12
    /\ date[3] \in 1 .. DaysInMonth(date[1], date[2])

\* strptime(date_str, DATE_FORMAT).strftime("%B")
get_month_name_from_date(date) ==
    IF StrptimeOk(date) THEN MONTHS[date[2]] ELSE "ValueError"

\* The (year, month) pairs the dates of the model fall in.
DatedKeys == { << d[1], get_month_name_from_date(d) >> : d \in { e \in Dates : StrptimeOk(e) } }

\* ------------------------------------------------------------------ validation
\* Faulty variant: a third transaction type is let through.
valid_types_with_refund ==
    { TRANSACTION_TYPE_PURCHASE, TRANSACTION_TYPE_PAYMENT, "refund" }

valid_types == { TRANSACTION_TYPE_PURCHASE, TRANSACTION_TYPE_PAYMENT }

\* Faulty variant: zero is let through.
NegativeAmountRejected(amount) == amount < 0

AmountRejected(amount) == amount <= 0

\* add_transaction up to its first store call: the response that ends the
\* request there, "" when the request goes on to the store.
HttpValidate(date, type, amount) ==
    IF AmountRejected(amount) THEN "400 Amount must be greater than zero"
    ELSE IF type \notin valid_types THEN "400 Invalid transaction type"
    ELSE IF get_month_name_from_date(date) = "ValueError" THEN "400 Invalid date format"
    ELSE ""

\* _process_transaction_command up to its first store call, on the parsed
\* amount and the date text's fields.
ChatValidate(date, type, amount) ==
    IF AmountRejected(amount) THEN "Amount must be greater than zero."
    ELSE IF ~StrptimeOk(date) THEN "Invalid date format"
    ELSE ""

ErrorResults == { "400 Amount must be greater than zero", "400 Invalid transaction type",
                  "400 Invalid date format", "Amount must be greater than zero.",
                  "Invalid date format", "Error recording", "500 Internal error" }

SuccessResults == { "201 Transaction added successfully", "Recorded" }

\* ------------------------------------------------------------------ requests
IdleRequest ==
    [ pc |-> "idle", via |-> "http", date |-> <<0, 0, 0>>, type |-> "", amount |-> 0,
      month_doc |-> NoDoc, insert_error |-> FALSE, store_error |-> FALSE,
      updated_doc |-> NoDoc,
      final_doc |-> NoDoc, result |-> "", read |-> << >> ]

InFlight(r) == req[r].pc \notin { "idle", "done" }

Year(r) == req[r].date[1]

MonthName(r) == get_month_name_from_date(req[r].date)

\* "daily_expenses" for a purchase, "credits" otherwise
field_name(type) ==
    IF type = TRANSACTION_TYPE_PURCHASE THEN "daily_expenses" ELSE "credits"

\* Faulty variant: the entry is put at the front of the array.
PushFront(coll, month_name, field, entry) ==
    LET i == FirstMatch(coll, month_name) IN
    IF i = 0 THEN coll
    ELSE IF field = "daily_expenses"
         THEN [ coll EXCEPT ![i].daily_expenses = << entry >> \o @ ]
         ELSE [ coll EXCEPT ![i].credits = << entry >> \o @ ]

\* Faulty variant: the array is replaced by the one entry ($set instead of $push).
PushOverwrite(coll, month_name, field, entry) ==
    LET i == FirstMatch(coll, month_name) IN
    IF i = 0 THEN coll
    ELSE IF field = "daily_expenses"
         THEN [ coll EXCEPT ![i].daily_expenses = << entry >> ]
         ELSE [ coll EXCEPT ![i].credits = << entry >> ]

\* collection.update_one({"month": month_name}, {"$push": {field: entry}})
PushInto(coll, month_name, field, entry) ==
    LET i == FirstMatch(coll, month_name) IN
    IF i = 0 THEN coll
    ELSE IF field = "daily_expenses"
         THEN [ coll EXCEPT ![i].daily_expenses = Append(@, entry) ]
         ELSE [ coll EXCEPT ![i].credits = Append(@, entry) ]

\* collection.update_one({"month": month_name}, {"$set": {"total_expense": .., "balance": ..}})
SetInto(coll, month_name, total_expense, balance) ==
    LET i == FirstMatch(coll, month_name) IN
    IF i = 0 THEN coll
    ELSE [ coll EXCEPT ![i].total_expense = total_expense, ![i].balance = balance ]

\* Whether collection.insert_one(doc) raises: only a unique index on "month"
\* makes a second document of a month a duplicate-key error.
InsertRaises(coll, doc) ==
    uniqueIndex /\ FirstMatch(coll, doc.month) # 0

\* ------------------------------------------------------------------ operations
\* A request arrives at the lowest free worker (workers are interchangeable)
\* and is validated; a rejected request ends here.
ReceiveDated(r, dates) ==
    /\ ~InFlight(r)
    /\ \A q \in Workers : q < r => InFlight(q)
    /\ received < NumRequests
    /\ received' = received + 1
    /\ \E via \in Vias, date \in dates, type \in Types, amount \in Amounts :
          /\ via = "chat" => type \in valid_types
          /\ LET verdict == IF via = "http" THEN HttpValidate(date, type, amount)
                            ELSE ChatValidate(date, type, amount)
             IN req' = [ req EXCEPT ![r] =
                           [ IdleRequest EXCEPT !.via = via, !.date = date, !.type = type,
                                                !.amount = amount,
                                                !.pc = IF verdict = "" THEN "find" ELSE "done",
                                                !.result = verdict ] ]
    /\ UNCHANGED << db, uniqueIndex, db0, appended, chat, today >>

Receive(r) == ReceiveDated(r, Dates)

ReceiveJanuary(r) == ReceiveDated(r, JanuaryDates)

\* month_doc = collection_obj.find_one({"month": month_name}); the listing of
\* the collection names before it only feeds a log line.
FindMonth(r) ==
    /\ req[r].pc = "find"
    /\ LET month_doc == find_one(get_collection_by_year(Year(r)), MonthName(r))
       IN req' = [ req EXCEPT ![r].pc = IF month_doc = NoDoc THEN "skeleton" ELSE "push" ]
    /\ UNCHANGED << db, uniqueIndex, db0, received, appended, chat, today >>

\* month_doc = create_month_skeleton(month_name, year), which reads the previous month
CreateSkeleton(r) ==
    /\ req[r].pc = "skeleton"
    /\ req' = [ req EXCEPT ![r].pc = "insert",
                           ![r].month_doc = create_month_skeleton(MonthName(r), Year(r)) ]
    /\ UNCHANGED << db, uniqueIndex, db0, received, appended, chat, today >>

\* collection_obj.insert_one(month_doc) returns
InsertMonth(r) ==
    /\ req[r].pc = "insert"
    /\ ~InsertRaises(get_collection_by_year(Year(r)), req[r].month_doc)
    /\ db' = [ db EXCEPT ![Year(r)] = Append(@, req[r].month_doc) ]
    /\ req' = [ req EXCEPT ![r].pc = "push", ![r].month_doc = NoDoc ]
    /\ UNCHANGED << uniqueIndex, db0, received, appended, chat, today >>

\* app.py: insert_one raises and the except clause of the insert catches it
InsertRaceHttp(r) ==
    /\ req[r].pc = "insert"
    /\ req[r].via = "http"
    /\ InsertRaises(get_collection_by_year(Year(r)), req[r].month_doc)
    /\ req' = [ req EXCEPT ![r].pc = "refind", ![r].insert_error = TRUE,
                           ![r].month_doc = NoDoc ]
    /\ UNCHANGED << db, uniqueIndex, db0, received, appended, chat, today >>

\* app.py: month_doc = collection_obj.find_one({"month": month_name}) after the race
RefindMonth(r) ==
    /\ req[r].pc = "refind"
    /\ req' = [ req EXCEPT ![r].pc = "push" ]
    /\ UNCHANGED << db, uniqueIndex, db0, received, appended, chat, today >>

\* telegram_bot.py: insert_one raises inside the one try block of the command,
\* whose except clause answers with the error text
InsertRaceChat(r) ==
    /\ req[r].pc = "insert"
    /\ req[r].via = "chat"
    /\ InsertRaises(get_collection_by_year(Year(r)), req[r].month_doc)
    /\ req' = [ req EXCEPT ![r].pc = "done", ![r].insert_error = TRUE,
                           ![r].month_doc = NoDoc, ![r].result = "Error recording" ]
    /\ UNCHANGED << db, uniqueIndex, db0, received, appended, chat, today >>

\* Faulty variant: the $push is sent a second time, as a retried write would be.
PushEntryRetried(r) ==
    /\ req[r].pc = "push"
    /\ LET transaction_entry == [ date |-> req[r].date, amount |-> req[r].amount ]
       IN db' = [ db EXCEPT ![Year(r)] =
                     PushInto(PushInto(@, MonthName(r), field_name(req[r].type),
                                       transaction_entry),
                              MonthName(r), field_name(req[r].type), transaction_entry) ]
    /\ req' = [ req EXCEPT ![r].pc = "fetch" ]
    /\ UNCHANGED << uniqueIndex, db0, received, appended, chat, today >>

\* collection_obj.update_one({"month": month_name}, {"$push": {field_name: transaction_entry}})
PushEntry(r) ==
    /\ req[r].pc = "push"
    /\ LET transaction_entry == [ date |-> req[r].date, amount |-> req[r].amount ]
       IN db' = [ db EXCEPT ![Year(r)] =
                     PushInto(@, MonthName(r), field_name(req[r].type), transaction_entry) ]
    /\ req' = [ req EXCEPT ![r].pc = "fetch" ]
    /\ UNCHANGED << uniqueIndex, db0, received, appended, chat, today >>

\* Faulty variant: the record is taken from a copy read when the behaviour
\* started instead of being read back after the $push.
FetchCached(r) ==
    /\ req[r].pc = "fetch"
    /\ req' = [ req EXCEPT ![r].pc = "recalculate",
                           ![r].updated_doc =
                               IF Year(r) \in DOMAIN db0
                               THEN find_one(db0[Year(r)], MonthName(r)) ELSE NoDoc ]
    /\ UNCHANGED << db, uniqueIndex, db0, received, appended, chat, today >>

\* updated_doc = collection_obj.find_one({"month": month_name})
FetchUpdated(r) ==
    /\ req[r].pc = "fetch"
    /\ req' = [ req EXCEPT ![r].pc = "recalculate",
                           ![r].updated_doc =
                               find_one(get_collection_by_year(Year(r)), MonthName(r)) ]
    /\ UNCHANGED << db, uniqueIndex, db0, received, appended, chat, today >>

\* Faulty variant: the stored totals are moved by the amount of the request
\* instead of being recomputed from the arrays.
RecalculateIncrementally(r) ==
    /\ req[r].pc = "recalculate"
    /\ req[r].updated_doc # NoDoc
    /\ LET delta == IF req[r].type = TRANSACTION_TYPE_PURCHASE THEN req[r].amount ELSE 0
           signed == IF req[r].type = TRANSACTION_TYPE_PURCHASE THEN req[r].amount
                     ELSE 0 - req[r].amount
       IN req' = [ req EXCEPT ![r].pc = "set",
                              ![r].updated_doc =
                                  [ @ EXCEPT !.total_expense = @ + delta,
                                             !.balance = @ + signed ] ]
    /\ UNCHANGED << db, uniqueIndex, db0, received, appended, chat, today >>

\* previous_balance = get_previous_month_balance(month_name, year)
\* updated_doc = recalculate_month_totals(updated_doc, previous_balance)
Recalculate(r) ==
    /\ req[r].pc = "recalculate"
    /\ req[r].updated_doc # NoDoc
    /\ LET previous_balance == get_previous_month_balance(MonthName(r), Year(r))
       IN req' = [ req EXCEPT ![r].pc = "set",
                              ![r].updated_doc =
                                  recalculate_month_totals(@, previous_balance) ]
    /\ UNCHANGED << db, uniqueIndex, db0, received, appended, chat, today >>

\* Faulty variant: the chat command stores total_expense only.
SetTotalsChatTotalOnly(r) ==
    /\ req[r].pc = "set"
    /\ db' = [ db EXCEPT ![Year(r)] =
                  SetInto(@, MonthName(r), req[r].updated_doc.total_expense,
                          IF req[r].via = "chat"
                          THEN find_one(get_collection_by_year(Year(r)), MonthName(r)).balance
                          ELSE req[r].updated_doc.balance) ]
    /\ req' = [ req EXCEPT ![r].pc = "final", ![r].updated_doc = NoDoc ]
    /\ UNCHANGED << uniqueIndex, db0, received, appended, chat, today >>

\* collection_obj.update_one({"month": month_name}, {"$set": {...}})
SetTotals(r) ==
    /\ req[r].pc = "set"
    /\ db' = [ db EXCEPT ![Year(r)] =
                  SetInto(@, MonthName(r), req[r].updated_doc.total_expense,
                          req[r].updated_doc.balance) ]
    /\ req' = [ req EXCEPT ![r].pc = "final", ![r].updated_doc = NoDoc ]
    /\ UNCHANGED << uniqueIndex, db0, received, appended, chat, today >>

\* final_doc = collection_obj.find_one({"month": month_name}), returned to the caller
FetchFinal(r) ==
    /\ req[r].pc = "final"
    /\ req' = [ req EXCEPT ![r].pc = "done",
                           ![r].final_doc =
                               find_one(get_collection_by_year(Year(r)), MonthName(r)),
                           ![r].result = IF req[r].via = "http"
                                         THEN "201 Transaction added successfully"
                                         ELSE "Recorded" ]
    /\ appended' = [ appended EXCEPT ![<< Year(r), MonthName(r) >>][req[r].type] =
                                        @ + req[r].amount ]
    /\ UNCHANGED << db, uniqueIndex, db0, received, chat, today >>

\* ------------------------------------------------------------------ read paths
\* The year and month i months before the current one.
target_month(now, i) ==
    LET months == now[1] * 12 + (now[2] - 1) - i
    IN << months \div 12, (months % 12) + 1 >>

\* One row of the chart data: the stored totals of the month, zeros when the
\* month has no record.
chart_row(year, month_name) ==
    LET month_doc == find_one(get_collection_by_year(year), month_name) IN
    IF month_doc # NoDoc
    THEN [ month_full |-> month_name, year |-> year, purchases |-> month_doc.total_expense,
           payments |-> SumAmounts(month_doc.credits), balance |-> month_doc.balance ]
    ELSE [ month_full |-> month_name, year |-> year, purchases |-> 0, payments |-> 0,
           balance |-> 0 ]

\* get_chart_data: the rows of the last months_count months, oldest first
get_chart_data(months_count, now) ==
    LET count == IF months_count < 1 THEN 1 ELSE IF months_count > 24 THEN 24 ELSE months_count
    IN [ n \in 1 .. count |->
           LET target == target_month(now, count - n)
           IN chart_row(target[1], MONTHS[target[2]]) ]

\* get_prev_month_paid: the sum of the payments of the month before, 0 when
\* there is none or the month name is unknown
get_prev_month_paid(month_name, year) ==
    LET previous_month_name == get_previous_month_name(month_name) IN
    IF previous_month_name = "None" THEN 0
    ELSE LET prev_doc == IF month_name = "January"
                         THEN find_one(get_collection_by_year(year - 1), "December")
                         ELSE find_one(get_collection_by_year(year), previous_month_name)
         IN IF prev_doc # NoDoc THEN SumAmounts(prev_doc.credits) ELSE 0

\* The values of the months parameter of the chart data that are tried.
MonthsCounts == { 0, 1, 3 }

\* The months and years the read requests ask for: months with and without
\* a record, a name that is no month, years with and without a collection.
ReadMonths == { "January", "February", "Smarch" }

ReadYears == { 2026, 2027 }

\* A read request arrives at the lowest free worker and is answered from
\* what the store holds; the store calls of one read are taken together,
\* none of them writes.
AnswerRead(r, via, rows) ==
    /\ ~InFlight(r)
    /\ \A q \in Workers : q < r => InFlight(q)
    /\ received < NumRequests
    /\ received' = received + 1
    /\ req' = [ req EXCEPT ![r] = [ IdleRequest EXCEPT !.via = via, !.pc = "done",
                                                       !.result = "200", !.read = rows ] ]
    /\ UNCHANGED << db, uniqueIndex, db0, appended, chat, today >>

\* GET /api/chart-data?months=..
GetChartData(r) ==
    \E months_count \in MonthsCounts :
        AnswerRead(r, "chart-data", get_chart_data(months_count, today))

\* GET /api/prev-month-paid?month=..&year=..
GetPrevMonthPaid(r) ==
    \E month_name \in ReadMonths, year \in ReadYears :
        AnswerRead(r, "prev-month-paid", << get_prev_month_paid(month_name, year) >>)

\* GET /api/monthly-data?year=..: every document of the year's collection
GetMonthlyData(r) ==
    \E year \in ReadYears :
        AnswerRead(r, "monthly-data", get_collection_by_year(year))

\* ------------------------------------------------------------------ text
\* A text is the sequence of its characters.
UPPERCASE == << "A", "B", "C", "D", "E", "F", "G", "H", "I", "J", "K", "L", "M",
                "N", "O", "P", "Q", "R", "S", "T", "U", "V", "W", "X", "Y", "Z" >>

LOWERCASE == << "a", "b", "c", "d", "e", "f", "g", "h", "i", "j", "k", "l", "m",
                "n", "o", "p", "q", "r", "s", "t", "u", "v", "w", "x", "y", "z" >>

\* The characters str.split() and str.strip() treat as white space.
Whitespace == { " ", "\t", "\n" }

\* Faulty variant: the text is left in the letter case it came in.
keep_case(text) == text

\* str.lower()
lower(text) ==
    [ i \in DOMAIN text |->
        IF \E n \in DOMAIN UPPERCASE : UPPERCASE[n] = text[i]
        THEN LOWERCASE[CHOOSE n \in DOMAIN UPPERCASE : UPPERCASE[n] = text[i]]
        ELSE text[i] ]

\* str.upper(), used to write the inputs
upper(text) ==
    [ i \in DOMAIN text |->
        IF \E n \in DOMAIN LOWERCASE : LOWERCASE[n] = text[i]
        THEN UPPERCASE[CHOOSE n \in DOMAIN LOWERCASE : LOWERCASE[n] = text[i]]
        ELSE text[i] ]

RECURSIVE lstrip(_)
lstrip(text) ==
    IF text # << >> /\ Head(text) \in Whitespace THEN lstrip(Tail(text)) ELSE text

RECURSIVE rstrip(_)
rstrip(text) ==
    IF text # << >> /\ text[Len(text)] \in Whitespace
    THEN rstrip(SubSeq(text, 1, Len(text) - 1)) ELSE text

\* str.strip()
strip(text) == rstrip(lstrip(text))

RECURSIVE split_from(_, _, _)
\* the words of text, given the word being read and the words read so far
split_from(text, word, words) ==
    IF text = << >> THEN (IF word = << >> THEN words ELSE Append(words, word))
    ELSE IF Head(text) \in Whitespace
         THEN split_from(Tail(text), << >>, IF word = << >> THEN words ELSE Append(words, word))
         ELSE split_from(Tail(text), Append(word, Head(text)), words)

\* str.split(): the words between runs of white space
split(text) == split_from(text, << >>, << >>)

RECURSIVE join_from(_, _)
join_from(words, text) ==
    IF words = << >> THEN text
    ELSE join_from(Tail(words), text \o << " " >> \o Head(words))

\* ' '.join(words)
join(words) == IF words = << >> THEN << >> ELSE join_from(Tail(words), Head(words))

RECURSIVE before(_, _)
\* text.split(c)[0]: the part of the text before its first c
before(text, c) ==
    IF text = << >> \/ Head(text) = c THEN << >>
    ELSE << Head(text) >> \o before(Tail(text), c)

\* text.replace(c, '')
remove(text, c) == SelectSeq(text, LAMBDA x : x # c)

\* text.startswith(c)
startswith(text, c) == text # << >> /\ text[1] = c

\* ------------------------------------------------------------------ flexible dates
DIGITS == << "0", "1", "2", "3", "4", "5", "6", "7", "8", "9" >>

Digits == { DIGITS[n] : n \in DOMAIN DIGITS }

Letters == { LOWERCASE[n] : n \in DOMAIN LOWERCASE } \cup { UPPERCASE[n] : n \in DOMAIN UPPERCASE }

DigitValue(c) == (CHOOSE n \in DOMAIN DIGITS : DIGITS[n] = c) - 1

RECURSIVE NumberOf(_)
\* the number a run of digits denotes
NumberOf(digits) ==
    IF digits = << >> THEN 0
    ELSE 10 * NumberOf(SubSeq(digits, 1, Len(digits) - 1)) + DigitValue(digits[Len(digits)])

RECURSIVE RunLength(_, _)
\* the length of the longest prefix of text made of the given characters
RunLength(text, chars) ==
    IF text # << >> /\ Head(text) \in chars THEN 1 + RunLength(Tail(text), chars) ELSE 0

\* calendar.month_name and calendar.month_abbr of the C locale, in lower
\* case (strptime compares names without regard to case)
MONTH_NAMES ==
    << << "j", "a", "n", "u", "a", "r", "y" >>, << "f", "e", "b", "r", "u", "a", "r", "y" >>,
       << "m", "a", "r", "c", "h" >>, << "a", "p", "r", "i", "l" >>, << "m", "a", "y" >>,
       << "j", "u", "n", "e" >>, << "j", "u", "l", "y" >>, << "a", "u", "g", "u", "s", "t" >>,
       << "s", "e", "p", "t", "e", "m", "b", "e", "r" >>, << "o", "c", "t", "o", "b", "e", "r" >>,
       << "n", "o", "v", "e", "m", "b", "e", "r" >>, << "d", "e", "c", "e", "m", "b", "e", "r" >> >>

MONTH_ABBRS == [ n \in DOMAIN MONTH_NAMES |-> SubSeq(MONTH_NAMES[n], 1, 3) ]

\* Faulty variant: the month names are numbered from 0, so January is read as
\* month 0.
month_names_from_zero(d, text) ==
    LET failed == [ ok |-> FALSE, value |-> 0, rest |-> text ] IN
    IF d \in { "%d", "%m", "%Y" }
    THEN LET n == RunLength(text, Digits)
             value == NumberOf(SubSeq(text, 1, n))
             fits == CASE d = "%d" -> n \in { 1, 2 } /\ value \in 1 .. 31
                       [] d = "%m" -> n \in { 1, 2 } /\ value \in 1 .. 12
                       [] d = "%Y" -> n = 4
         IN IF fits THEN [ ok |-> TRUE, value |-> value, rest |-> SubSeq(text, n + 1, Len(text)) ]
            ELSE failed
    ELSE LET n == RunLength(text, Letters)
             word == lower(SubSeq(text, 1, n))
             names == IF d = "%b" THEN MONTH_ABBRS ELSE MONTH_NAMES
         IN IF \E m \in DOMAIN names : names[m] = word
            THEN [ ok |-> TRUE, value |-> (CHOOSE m \in DOMAIN names : names[m] = word) - 1,
                   rest |-> SubSeq(text, n + 1, Len(text)) ]
            ELSE failed

\* The value strptime reads for one directive at the start of text, as
\* [ok, value, rest]: %d and %m take one or two digits, %Y four, %b and %B a
\* month name; what follows a directive in the formats below is never a
\* digit or a letter, so the whole run of digits or letters has to fit.
Directive(d, text) ==
    LET failed == [ ok |-> FALSE, value |-> 0, rest |-> text ] IN
    IF d \in { "%d", "%m", "%Y" }
    THEN LET n == RunLength(text, Digits)
             value == NumberOf(SubSeq(text, 1, n))
             fits == CASE d = "%d" -> n \in { 1, 2 } /\ value \in 1 .. 31
                       [] d = "%m" -> n \in { 1, 2 } /\ value \in 1 .. 12
                       [] d = "%Y" -> n = 4
         IN IF fits THEN [ ok |-> TRUE, value |-> value, rest |-> SubSeq(text, n + 1, Len(text)) ]
            ELSE failed
    ELSE LET n == RunLength(text, Letters)
             word == lower(SubSeq(text, 1, n))
             names == IF d = "%b" THEN MONTH_ABBRS ELSE MONTH_NAMES
         IN IF \E m \in DOMAIN names : names[m] = word
            THEN [ ok |-> TRUE, value |-> CHOOSE m \in DOMAIN names : names[m] = word,
                   rest |-> SubSeq(text, n + 1, Len(text)) ]
            ELSE failed

Directives == { "%d", "%m", "%Y", "%b", "%B" }

RECURSIVE Match(_, _, _)
\* The fields strptime reads from text under the format (a sequence of
\* directives and literal characters, a space standing for a run of white
\* space), as [ok, year, month, day]; the whole text has to be used up.
Match(format, text, fields) ==
    IF format = << >> THEN [ fields EXCEPT !.ok = (text = << >>) ]
    ELSE LET f == Head(format) IN
         IF f \in Directives
         THEN LET got == Directive(f, text) IN
              IF ~got.ok THEN [ fields EXCEPT !.ok = FALSE ]
              ELSE Match(Tail(format), got.rest,
                         CASE f = "%d" -> [ fields EXCEPT !.day = got.value ]
                           [] f = "%Y" -> [ fields EXCEPT !.year = got.value ]
                           [] OTHER -> [ fields EXCEPT !.month = got.value ])
         ELSE IF f = " "
         THEN LET n == RunLength(text, Whitespace) IN
              IF n = 0 THEN [ fields EXCEPT !.ok = FALSE ]
              ELSE Match(Tail(format), SubSeq(text, n + 1, Len(text)), fields)
         ELSE IF text # << >> /\ Head(text) = f
              THEN Match(Tail(format), Tail(text), fields)
              ELSE [ fields EXCEPT !.ok = FALSE ]

\* datetime.strptime(text, format): the date read, ok = FALSE for ValueError.
\* Fields the format does not name default to 1900-01-01, and the fields
\* have to be a calendar date.
strptime(text, format) ==
    LET got == Match(format, text, [ ok |-> TRUE, year |-> 1900, month |-> 1, day |-> 1 ]) IN
    IF got.ok /\ got.year >= 1 /\ got.day <= DaysInMonth(got.year, got.month)
    THEN got
    ELSE [ got EXCEPT !.ok = FALSE ]

\* formats_to_try: each format and whether the current year is filled in
formats_to_try ==
    << [ format |-> << "%d", "/", "%m", "/", "%Y" >>, default_year |-> FALSE ],
       [ format |-> << "%d", "-", "%m", "-", "%Y" >>, default_year |-> FALSE ],
       [ format |-> << "%d", ".", "%m", ".", "%Y" >>, default_year |-> FALSE ],
       [ format |-> << "%Y", "-", "%m", "-", "%d" >>, default_year |-> FALSE ],
       [ format |-> << "%d", " ", "%b", " ", "%Y" >>, default_year |-> FALSE ],
       [ format |-> << "%d", " ", "%B", " ", "%Y" >>, default_year |-> FALSE ],
       [ format |-> << "%b", " ", "%d", " ", "%Y" >>, default_year |-> FALSE ],
       [ format |-> << "%B", " ", "%d", " ", "%Y" >>, default_year |-> FALSE ],
       [ format |-> << "%d", "/", "%m" >>, default_year |-> TRUE ],
       [ format |-> << "%d", "-", "%m" >>, default_year |-> TRUE ],
       [ format |-> << "%d", " ", "%b" >>, default_year |-> TRUE ],
       [ format |-> << "%d", " ", "%B" >>, default_year |-> TRUE ] >>

TODAY == << "t", "o", "d", "a", "y" >>

YESTERDAY == << "y", "e", "s", "t", "e", "r", "d", "a", "y" >>

\* Faulty variant: the day before the first of a month is the last day of
\* that same month.
day_before_same_month(now) ==
    IF now[3] > 1 THEN << now[1], now[2], now[3] - 1 >>
    ELSE << now[1], now[2], DaysInMonth(now[1], now[2]) >>

\* now - timedelta(days=1)
day_before(now) ==
    IF now[3] > 1 THEN << now[1], now[2], now[3] - 1 >>
    ELSE IF now[2] > 1 THEN << now[1], now[2] - 1, DaysInMonth(now[1], now[2] - 1) >>
    ELSE << now[1] - 1, 12, 31 >>

RECURSIVE try_formats(_, _, _)
\* the loop over formats_to_try from the i-th format on
try_formats(text, i, now) ==
    IF i > Len(formats_to_try)
    THEN [ success |-> FALSE, date |-> << 0, 0, 0 >>, tried |-> Len(formats_to_try) ]
    ELSE LET parsed == strptime(text, formats_to_try[i].format) IN
         IF parsed.ok
         THEN [ success |-> TRUE,
                date |-> << IF formats_to_try[i].default_year THEN now[1] ELSE parsed.year,
                            parsed.month, parsed.day >>,
                tried |-> i ]
         ELSE try_formats(text, i + 1, now)

\* parse_flexible_date(date_str) when datetime.now() is `now`: the date of
\* the YYYY-MM-DD text it returns and the number of formats it tried.  None
\* and '' are both written << >>.
parse_flexible_date(date_str, now) ==
    IF date_str = << >> THEN [ success |-> TRUE, date |-> now, tried |-> 0 ]
    ELSE LET text == lower(strip(date_str)) IN
         IF text = TODAY THEN [ success |-> TRUE, date |-> now, tried |-> 0 ]
         ELSE IF text = YESTERDAY
              THEN [ success |-> TRUE, date |-> day_before(now), tried |-> 0 ]
              ELSE try_formats(text, 1, now)

\* ------------------------------------------------------------------ amounts
NAN == << "n", "a", "n" >>

INF == << "i", "n", "f" >>

INFINITY == << "i", "n", "f", "i", "n", "i", "t", "y" >>

\* No digit of the run is other than 0.
AllZero(digits) == \A n \in DOMAIN digits : digits[n] = "0"

\* float(text) for texts made of a sign, digits, one point and letters: the
\* value as [ok, kind, negative, units, fraction], ok = FALSE for ValueError.
\* nan, inf and infinity are read in any letter case.
float(text) ==
    LET failed == [ ok |-> FALSE, kind |-> "", negative |-> FALSE, units |-> 0, fraction |-> << >> ]
        signed == text # << >> /\ text[1] \in { "+", "-" }
        negative == signed /\ text[1] = "-"
        body == IF signed THEN Tail(text) ELSE text
        n == RunLength(body, Digits)
        after == SubSeq(body, n + 1, Len(body))
        fraction == IF after # << >> /\ after[1] = "." THEN Tail(after) ELSE << >>
    IN IF lower(body) = NAN
       THEN [ failed EXCEPT !.ok = TRUE, !.kind = "nan", !.negative = negative ]
       ELSE IF lower(body) \in { INF, INFINITY }
       THEN [ failed EXCEPT !.ok = TRUE, !.kind = "inf", !.negative = negative ]
       ELSE IF /\ after = << >> \/ after[1] = "."
               /\ RunLength(fraction, Digits) = Len(fraction)
               /\ n + Len(fraction) > 0
       THEN [ ok |-> TRUE, kind |-> "finite", negative |-> negative,
              units |-> NumberOf(SubSeq(body, 1, n)), fraction |-> fraction ]
       ELSE failed

\* amount <= 0 on a float: false for NaN, which compares false with everything
at_most_zero(amount) ==
    \/ amount.kind = "inf" /\ amount.negative
    \/ amount.kind = "finite" /\ (amount.negative \/ (amount.units = 0 /\ AllZero(amount.fraction)))

\* ------------------------------------------------------------------ chat commands
\* The command words process_command compares the first word with.
DUE == << "/", "d", "u", "e" >>

HELP == << "/", "h", "e", "l", "p" >>

START == << "/", "s", "t", "a", "r", "t" >>

PURCHASE == << "/", "p", "u", "r", "c", "h", "a", "s", "e" >>

PAYMENT == << "/", "p", "a", "y", "m", "e", "n", "t" >>

\* The branch process_command takes for a command word.
branch_of(command) ==
    IF command = DUE THEN "Due"
    ELSE IF command \in { HELP, START } THEN "Help"
    ELSE IF command \in { PURCHASE, PAYMENT } THEN "TransactionCommand"
    ELSE "Unrecognized"

\* ------------------------------------------------------------------ chat inputs
\* An update is written from a command name, a letter case, a suffix and
\* the text after the first word; `name` stays with it as the record of what
\* was written.
Cased(name, casing) ==
    CASE casing = "lower" -> name
      [] casing = "upper" -> upper(name)
      [] casing = "mixed" -> [ i \in DOMAIN name |-> IF i = 2 THEN upper(name)[i] ELSE name[i] ]

Update(name, casing, suffix, rest) ==
    [ secret |-> "none", has_message |-> TRUE, chat_id |-> "CHAT_ID",
      text |-> Cased(name, casing) \o suffix \o rest, name |-> name ]

Casings == { "lower", "upper", "mixed" }

\* First words that are no command of the bot.
OtherNames ==
    { << "/", "d", "u", "e", "s" >>, << "/", "d", "u" >>, << "/" >>, << "/", "p", "a", "y" >> }

CommandNames == { DUE, HELP, START, PURCHASE, PAYMENT }

Suffixes ==
    { << >>, << "@", "b", "o", "t" >>, << "@", "d", "u", "e" >> }

\* What follows the first word: nothing, an amount, an amount and a date, in
\* several spacings.
Rests ==
    { << >>, << " ", "1" >>, << " ", " ", "2", " ", "t", "o", "d", "a", "y", " " >>,
      << " ", "0" >>, << " ", "x" >>, << " ", "1", " ", "3", "2", "/", "1" >>,
      << " ", "2", " ", "y", "e", "s", "t", "e", "r", "d", "a", "y" >>,
      << " ", "/", "d", "u", "e" >> }

\* Updates that differ in what handle_webhook looks at before the text.
GateUpdates ==
    { [ Update(DUE, "lower", << >>, << >>) EXCEPT !.secret = s, !.has_message = m, !.chat_id = c ] :
        s \in { "none", "WEBHOOK_SECRET", "wrong" }, m \in BOOLEAN, c \in { "CHAT_ID", "other" } }
        \cup { [ Update(DUE, "lower", << >>, << >>) EXCEPT !.text = t ] :
                 t \in { << >>, << " ", "/", "d", "u", "e" >>, << "d", "u", "e" >> } }

\* Every first word in every letter case and with every suffix, alone or
\* before an amount.
WordUpdates ==
    { Update(name, casing, suffix, rest) :
        name \in CommandNames \cup OtherNames, casing \in Casings,
        suffix \in Suffixes, rest \in { << >>, << " ", "1" >> } }

\* Some first words before everything that can follow them.
RestUpdates ==
    { Update(name, "lower", << >>, rest) :
        name \in { DUE, PURCHASE, PAYMENT, << "/", "d", "u", "e", "s" >> }, rest \in Rests }

ChatUpdates == WordUpdates \cup RestUpdates \cup GateUpdates

\* ------------------------------------------------------------------ amount and date inputs
\* Amount words: whole and fractional numbers with and without commas and
\* signs, zeros, negative numbers, words that are no number, and the words
\* float() reads as NaN and as an infinity.
AmountWords ==
    { << "1" >>, << "2" >>, << "2", ",", "5", "0", "0" >>,
      << "1", ",", "0", "0", "0", ",", "0", "0", "0" >>, << "1", ",", ",", "2" >>,
      << "+", "5" >>, << "5", "." >>, << "0", "0", "7" >>, << "1", ".", "5" >>, << ".", "5" >>,
      << "0", ".", "0", "1" >>, << "0" >>, << "-", "5" >>, << "-", "0" >>, << "0", ".", "0" >>,
      << "0", ".", "0", "0" >>, << "-", "1", ".", "5" >>, << "-", "2", ",", "5", "0", "0" >>,
      << "a", "b", "c" >>, << "5", "a" >>, << "a", "5" >>, << "1", ".", "2", ".", "3" >>,
      << "," >>, << "-" >>, << "+" >>, << "." >>, << "-", "-", "5" >>, << "5", "-" >>,
      << "n", "a", "n" >>, << "N", "a", "N" >>, << "N", "A", "N" >>, << "-", "n", "a", "n" >>,
      << "i", "n", "f" >>, << "I", "n", "f" >>, << "+", "i", "n", "f" >>,
      << "-", "i", "n", "f" >>, << "i", "n", "f", "i", "n", "i", "t", "y" >>,
      << "I", "N", "F", "I", "N", "I", "T", "Y" >> }

\* /purchase and /payment, each before every amount word.
AmountUpdates ==
    { Update(name, "lower", << >>, << " " >> \o word) :
        name \in { PURCHASE, PAYMENT }, word \in AmountWords }

\* What follows the amount: nothing, the two literals in several letter
\* cases and spacings, near misses of them, and dates in one of the formats.
DateRests ==
    { << >>, << " ", "t", "o", "d", "a", "y" >>, << " ", "T", "O", "D", "A", "Y" >>,
      << " ", "T", "o", "d", "a", "y" >>, << " ", "t", "o", "D", "A", "Y" >>,
      << " ", " ", "t", "o", "d", "a", "y", " ", " " >>,
      << " ", "y", "e", "s", "t", "e", "r", "d", "a", "y" >>,
      << " ", "Y", "E", "S", "T", "E", "R", "D", "A", "Y" >>,
      << " ", "Y", "e", "s", "t", "e", "r", "d", "a", "y" >>,
      << " ", "y", "e", "s", "t", "e", "r", "D", "A", "Y" >>,
      << " ", "t", "o", "m", "o", "r", "r", "o", "w" >>,
      << " ", "t", "o", " ", "d", "a", "y" >>, << " ", "t", "o", "d", "a", "y", " ", "1" >>,
      << " ", "y", "e", "s", "t", "e", "r", "d", "a", "y", "s" >>,
      << " ", "1", "5", "/", "1", "/", "2", "0", "2", "6" >>,
      << " ", "1", "-", "3", "-", "2", "0", "2", "6" >>, << " ", "1", " ", "m", "a", "r" >>,
      << " ", "3", "1", "/", "4" >>,
      << " ", "y", "e", "s", "t", "e", "r", "d", "a", "y", " ", "t", "o", "d", "a", "y" >> }

DateUpdates ==
    { Update(name, "lower", << >>, << " ", "1" >> \o rest) :
        name \in { PURCHASE, PAYMENT }, rest \in DateRests }

\* The days on which the updates of SpecDate arrive: the first of a year,
\* of March in a common and in a leap year, of May, and two other days.
CurrentDates ==
    { << 2026, 1, 1 >>, << 2026, 3, 1 >>, << 2024, 3, 1 >>, << 2026, 5, 1 >>,
      << 2026, 5, 31 >>, << 2026, 1, 15 >> }

\* ------------------------------------------------------------------ written dates
RECURSIVE Numeral(_)
\* The decimal digits of a natural number.
Numeral(n) ==
    IF n < 10 THEN << DIGITS[n + 1] >> ELSE Numeral(n \div 10) \o << DIGITS[(n % 10) + 1] >>

\* How a date is typed: day and month as they are, day and month with a
\* leading zero, or the month name in capitals.
Styles == { "plain", "padded", "capitals" }

\* The text typed for one directive of a format.
WrittenField(d, date, style) ==
    LET number(n) == IF style = "padded" /\ n < 10 THEN << "0" >> \o Numeral(n) ELSE Numeral(n)
        name(word) == IF style = "capitals" THEN upper(word) ELSE word
    IN CASE d = "%d" -> number(date[3])
         [] d = "%m" -> number(date[2])
         [] d = "%Y" -> Numeral(date[1])
         [] d = "%b" -> name(MONTH_ABBRS[date[2]])
         [] d = "%B" -> name(MONTH_NAMES[date[2]])
         [] OTHER -> << d >>

RECURSIVE Written(_, _, _)
\* The text a user types for the date in the form a format accepts.
Written(format, date, style) ==
    IF format = << >> THEN << >>
    ELSE WrittenField(Head(format), date, style) \o Written(Tail(format), date, style)

\* The dates that are typed: days at the ends and in the middle of months,
\* 29 February, and two days no calendar has.
WrittenDates ==
    { << 2026, 1, 15 >>, << 2024, 2, 29 >>, << 2026, 2, 29 >>, << 2025, 12, 31 >>,
      << 2026, 5, 1 >>, << 2026, 4, 31 >>, << 2026, 9, 30 >> }

\* /purchase and /payment with the amount 1 and every written date in the
\* form of every format.
FormatUpdates ==
    { Update(name, "lower", << >>,
             << " ", "1", " " >> \o Written(formats_to_try[i].format, date, style)) :
        name \in { PURCHASE, PAYMENT }, i \in DOMAIN formats_to_try,
        date \in WrittenDates, style \in Styles }

\* ------------------------------------------------------------------ due summary
\* The number of lines under "Recent Activity:".
RECENT_LIMIT == 5

\* Faulty variant: the payments are collected before the purchases.
all_txns_payments_first(month_doc) ==
    [ i \in DOMAIN month_doc.credits |->
        [ kind |-> "Payment", amount |-> month_doc.credits[i].amount,
          date |-> month_doc.credits[i].date ] ]
    \o [ i \in DOMAIN month_doc.daily_expenses |->
        [ kind |-> "Purchase", amount |-> month_doc.daily_expenses[i].amount,
          date |-> month_doc.daily_expenses[i].date ] ]

\* all_txns before it is sorted: the purchases in array order, then the
\* payments in array order
all_txns(month_doc) ==
    [ i \in DOMAIN month_doc.daily_expenses |->
        [ kind |-> "Purchase", amount |-> month_doc.daily_expenses[i].amount,
          date |-> month_doc.daily_expenses[i].date ] ]
    \o [ i \in DOMAIN month_doc.credits |->
        [ kind |-> "Payment", amount |-> month_doc.credits[i].amount,
          date |-> month_doc.credits[i].date ] ]

\* The order of two datetimes at midnight, by (year, month, day).
DateBefore(a, b) ==
    \/ a[1] < b[1]
    \/ a[1] = b[1] /\ a[2] < b[2]
    \/ a[1] = b[1] /\ a[2] = b[2] /\ a[3] < b[3]

RECURSIVE sort_from(_, _)
\* list.sort(key=date, reverse=True) is stable: each element goes behind
\* the elements already placed whose date is the same or later.
sort_from(txns, sorted) ==
    IF txns = << >> THEN sorted
    ELSE LET txn == Head(txns)
             p == Cardinality({ i \in DOMAIN sorted : ~DateBefore(sorted[i].date, txn.date) })
         IN sort_from(Tail(txns),
                      SubSeq(sorted, 1, p) \o << txn >> \o SubSeq(sorted, p + 1, Len(sorted)))

\* all_txns.sort(key=lambda x: x[3] if x[3] else '', reverse=True); all_txns[:5]
recent_activity(month_doc) ==
    LET sorted == sort_from(all_txns(month_doc), << >>)
    IN SubSeq(sorted, 1, IF Len(sorted) < RECENT_LIMIT THEN Len(sorted) ELSE RECENT_LIMIT)

\* ------------------------------------------------------------------ due summary inputs
\* The days of January 2026 the stored entries are dated on.
DueDates == { << 2026, 1, 5 >>, << 2026, 1, 10 >>, << 2026, 1, 15 >> }

PurchaseCounts == 0 .. 3

PaymentCounts == 0 .. 3

\* The arrays earlier requests can have left: entries in the order they
\* were appended, with any dates; the amount of an entry is its position.
EntryArrays(counts) ==
    UNION { { [ i \in 1 .. n |-> [ date |-> dates[i], amount |-> i ] ] :
                dates \in [ 1 .. n -> DueDates ] } : n \in counts }

\* January 2026 records with such arrays and the totals that go with them.
DueDocs ==
    { recalculate_month_totals(
          [ month |-> "January", daily_expenses |-> purchases, credits |-> payments,
            total_expense |-> 0, balance |-> 0 ], 0) :
        purchases \in EntryArrays(PurchaseCounts), payments \in EntryArrays(PaymentCounts) }

DueStores ==
    { [ y \in Years |-> IF y = 2026 THEN << doc >> ELSE << >> ] : doc \in DueDocs }

\* /due in every letter case.
DueUpdates == { Update(DUE, casing, << >>, << >>) : casing \in Casings }

\* ------------------------------------------------------------------ webhook inputs
\* The secret tokens a call of handle_webhook can carry: no header, a header
\* sent empty, the configured secret, another text.
SecretTokens == { "none", "", "WEBHOOK_SECRET", "wrong" }

\* The texts of the updates: three commands, a text that is no command, and
\* no text.
WebhookTexts ==
    { DUE, HELP, PURCHASE \o << " ", "1" >>, << "d", "u", "e" >>, << >> }

\* Updates with every secret token, with and without a message, from the
\* configured chat and from another, with every text.
WebhookUpdates ==
    { [ secret |-> s, has_message |-> m, chat_id |-> c, text |-> t, name |-> t ] :
        s \in SecretTokens, m \in BOOLEAN, c \in { "CHAT_ID", "other" }, t \in WebhookTexts }

\* ------------------------------------------------------------------ ledger inputs over chat
\* What follows the command word of a /purchase or /payment that reaches the
\* ledger: a whole amount and a date of December 2025, January, February or
\* December 2026 in several forms, or no date.
LedgerRests ==
    { << " ", "1" >>, << " ", "2", " ", "y", "e", "s", "t", "e", "r", "d", "a", "y" >>,
      << " ", "1", " ", "3", "1", "/", "1", "2", "/", "2", "0", "2", "5" >>,
      << " ", "2", " ", "2", "0", " ", "f", "e", "b", " ", "2", "0", "2", "6" >>,
      << " ", "2", " ", "2", "0", "2", "6", "-", "0", "1", "-", "1", "5" >>,
      << " ", "1", " ", "5", "-", "1", "2" >> }

LedgerUpdates ==
    { Update(name, "lower", << >>, rest) : name \in { PURCHASE, PAYMENT }, rest \in LedgerRests }

\* ------------------------------------------------------------------ chat messages
NoAmount == [ ok |-> FALSE, kind |-> "", negative |-> FALSE, units |-> 0, fraction |-> << >> ]

NoDate == [ success |-> FALSE, date |-> << 0, 0, 0 >>, tried |-> 0 ]

\* A worker that handles no update.  response "" is the None of process_command.
IdleMessage ==
    [ stage |-> "Idle", status |-> "",
      update |-> [ secret |-> "none", has_message |-> FALSE, chat_id |-> "", text |-> << >>,
                   name |-> << >> ],
      parts |-> << >>, command |-> << >>, branch |-> "", amount |-> NoAmount, date |-> NoDate,
      response |-> "", recent |-> << >>, sent |-> 0 ]

\* The stages at which handle_webhook has returned.
FinalStages == { "Idle", "Ignored", "Unrecognized", "Sent" }

Handling(w) == chat[w].stage \notin FinalStages

\* The secret token of a call: "none" is the None of a request without the
\* header, "" the value of a header sent empty, and every other value a
\* non-empty text.  `if secret_token` is true of the non-empty texts only.
truthy(secret_token) == secret_token \notin { "none", "" }

verify_webhook_secret(secret_token) == secret_token = "WEBHOOK_SECRET"

\* What handle_webhook returns before it looks at the command, "" when the
\* update gets as far as process_command.
gate(update) ==
    IF truthy(update.secret) /\ ~verify_webhook_secret(update.secret) THEN "unauthorized"
    ELSE IF ~update.has_message THEN "No message in update"
    ELSE IF update.chat_id # "CHAT_ID" THEN "Chat ID not matching"
    ELSE IF update.text = << >> \/ ~startswith(update.text, "/") THEN "Not a command"
    ELSE ""

\* handle_webhook is called with an update, one call at a time.
HandleWebhook(r, updates) ==
    /\ \A q \in Workers : ~Handling(q) /\ ~InFlight(q)
    /\ \A q \in Workers : q >= r
    /\ received < NumRequests
    /\ received' = received + 1
    /\ \E update \in updates :
          chat' = [ chat EXCEPT ![r] =
                      [ IdleMessage EXCEPT !.update = update, !.status = gate(update),
                                           !.stage = IF gate(update) = "" THEN "Received"
                                                     ELSE "Ignored" ] ]
    /\ req' = [ req EXCEPT ![r] = IdleRequest ]
    /\ UNCHANGED << db, uniqueIndex, db0, appended, today >>

\* process_command: text.strip().split() and the command word
ParseText(r) ==
    /\ chat[r].stage = "Received"
    /\ LET parts == split(strip(chat[r].update.text)) IN
       chat' = [ chat EXCEPT ![r].parts = parts,
                             ![r].command = IF parts = << >> THEN << >>
                                            ELSE before(lower(parts[1]), "@"),
                             ![r].branch = IF parts = << >> THEN "Unrecognized" ELSE "",
                             ![r].stage = IF parts = << >> THEN "Unrecognized" ELSE "Parsed" ]
    /\ UNCHANGED << db, uniqueIndex, db0, req, received, appended, today >>

\* process_command: the comparisons of the command word
Dispatch(r) ==
    /\ chat[r].stage = "Parsed"
    /\ chat' = [ chat EXCEPT ![r].branch = branch_of(chat[r].command),
                             ![r].stage = branch_of(chat[r].command) ]
    /\ UNCHANGED << db, uniqueIndex, db0, req, received, appended, today >>

\* Faulty variant: the summary recomputes the totals of the month and stores
\* them.
GenerateDueSummaryStoring(r) ==
    /\ chat[r].stage = "Due"
    /\ LET month_doc == find_one(get_collection_by_year(today[1]), MONTHS[today[2]])
           fresh == recalculate_month_totals(
                        month_doc, get_previous_month_balance(MONTHS[today[2]], today[1]))
       IN /\ chat' = [ chat EXCEPT ![r].stage = "ResponseFormatted",
                                   ![r].response = IF month_doc = NoDoc THEN "No transactions yet"
                                                   ELSE "Grocery Due Summary",
                                   ![r].recent = IF month_doc = NoDoc THEN << >>
                                                 ELSE recent_activity(month_doc) ]
          /\ db' = IF month_doc = NoDoc THEN db
                   ELSE [ db EXCEPT ![today[1]] =
                            SetInto(@, MONTHS[today[2]], fresh.total_expense, fresh.balance) ]
    /\ UNCHANGED << uniqueIndex, db0, req, received, appended, today >>

\* generate_due_summary: reads the current month and the balance before it
GenerateDueSummary(r) ==
    /\ chat[r].stage = "Due"
    /\ LET month_doc == find_one(get_collection_by_year(today[1]), MONTHS[today[2]])
       IN chat' = [ chat EXCEPT ![r].stage = "ResponseFormatted",
                                ![r].response = IF month_doc = NoDoc THEN "No transactions yet"
                                                ELSE "Grocery Due Summary",
                                ![r].recent = IF month_doc = NoDoc THEN << >>
                                              ELSE recent_activity(month_doc) ]
    /\ UNCHANGED << db, uniqueIndex, db0, req, received, appended, today >>

\* generate_due_summary: a store call raises inside its try block
DueSummaryFails(r) ==
    /\ chat[r].stage = "Due"
    /\ chat' = [ chat EXCEPT ![r].stage = "ResponseFormatted",
                             ![r].response = "Error generating summary" ]
    /\ UNCHANGED << db, uniqueIndex, db0, req, received, appended, today >>

\* get_command_help
GetCommandHelp(r) ==
    /\ chat[r].stage = "Help"
    /\ chat' = [ chat EXCEPT ![r].stage = "ResponseFormatted", ![r].response = "Commands" ]
    /\ UNCHANGED << db, uniqueIndex, db0, req, received, appended, today >>

\* _process_transaction_command: the amount word
ParseAmount(r) ==
    /\ chat[r].stage = "TransactionCommand"
    /\ LET parts == chat[r].parts
           amount == IF Len(parts) < 2 THEN NoAmount ELSE float(remove(parts[2], ","))
           text == IF Len(parts) < 2 THEN "Missing amount"
                   ELSE IF ~amount.ok THEN "Invalid amount"
                   ELSE IF at_most_zero(amount) THEN "Amount must be greater than zero."
                   ELSE ""
       IN chat' = [ chat EXCEPT ![r].amount = amount, ![r].response = text,
                                ![r].stage = IF text = "" THEN "AmountParsed"
                                             ELSE "ResponseFormatted" ]
    /\ UNCHANGED << db, uniqueIndex, db0, req, received, appended, today >>

\* _process_transaction_command: the words after the amount, as a date
ParseDate(r) ==
    /\ chat[r].stage = "AmountParsed"
    /\ LET parts == chat[r].parts
           date_input == IF Len(parts) > 2 THEN join(SubSeq(parts, 3, Len(parts))) ELSE << >>
           date == parse_flexible_date(date_input, today)
       IN chat' = [ chat EXCEPT ![r].date = date,
                                ![r].response = IF date.success THEN "" ELSE "Invalid date format",
                                ![r].stage = IF date.success THEN "DateParsed"
                                             ELSE "ResponseFormatted" ]
    /\ UNCHANGED << db, uniqueIndex, db0, req, received, appended, today >>

\* _process_transaction_command: the try block is entered with the amount
\* and the date (the ledger of the model holds whole amounts)
BeginLedger(r) ==
    /\ chat[r].stage = "DateParsed"
    /\ chat[r].amount.kind = "finite" /\ AllZero(chat[r].amount.fraction)
    /\ chat' = [ chat EXCEPT ![r].stage = "Ledger" ]
    /\ req' = [ req EXCEPT ![r] =
                  [ IdleRequest EXCEPT !.via = "chat", !.date = chat[r].date.date,
                                       !.type = IF chat[r].command = PURCHASE
                                                THEN TRANSACTION_TYPE_PURCHASE
                                                ELSE TRANSACTION_TYPE_PAYMENT,
                                       !.amount = chat[r].amount.units, !.pc = "find" ] ]
    /\ UNCHANGED << db, uniqueIndex, db0, received, appended, today >>

\* Faulty variant: the receipt is written from the record as it is before
\* the totals are set.
FormatReceiptBeforeSet(r) ==
    /\ chat[r].stage = "Ledger"
    /\ req[r].pc \in { "set", "done" }
    /\ chat' = [ chat EXCEPT ![r].stage = "ResponseFormatted", ![r].response = "Recorded" ]
    /\ UNCHANGED << db, uniqueIndex, db0, req, received, appended, today >>

\* _process_transaction_command returns the receipt, or the text of its
\* except clause
FormatReceipt(r) ==
    /\ chat[r].stage = "Ledger"
    /\ req[r].pc = "done"
    /\ chat' = [ chat EXCEPT ![r].stage = "ResponseFormatted", ![r].response = req[r].result ]
    /\ UNCHANGED << db, uniqueIndex, db0, req, received, appended, today >>

\* handle_webhook: if response_msg: self.send_message(response_msg, message_id)
SendMessage(r) ==
    /\ chat[r].stage = "ResponseFormatted"
    /\ chat' = [ chat EXCEPT ![r].stage = IF chat[r].response # "" THEN "Sent" ELSE "Unrecognized",
                             ![r].sent = IF chat[r].response # "" THEN @ + 1 ELSE @ ]
    /\ UNCHANGED << db, uniqueIndex, db0, req, received, appended, today >>

\* ------------------------------------------------------------------ store failures
\* Faulty variant: the chat command has no except clause, the exception
\* leaves process_command.
ExceptionEscapes(via) ==
    IF via = "http" THEN "500 Internal error" ELSE "raised"

\* The response of the except clause a raised exception reaches: the handler
\* of add_transaction's last except clause, or the error text of the chat
\* command's except clause.
ExceptionResult(via) ==
    IF via = "http" THEN "500 Internal error" ELSE "Error recording"

\* The positions whose store call, when it raises, reaches that except
\* clause: every store call of the chat command, and every store call of
\* add_transaction but the insert, which has an except clause of its own.
PropagatingCalls(via) ==
    IF via = "http"
    THEN { "find", "skeleton", "refind", "push", "fetch", "recalculate", "set", "final" }
    ELSE { "find", "skeleton", "insert", "push", "fetch", "recalculate", "set", "final" }

\* The store call the request is about to make raises (the store cannot be
\* reached) and the exception ends the request.
StoreCallFails(r) ==
    /\ req[r].pc \in PropagatingCalls(req[r].via)
    /\ req' = [ req EXCEPT ![r].pc = "done", ![r].store_error = TRUE,
                           ![r].month_doc = NoDoc, ![r].updated_doc = NoDoc,
                           ![r].result = ExceptionResult(req[r].via) ]
    /\ UNCHANGED << db, uniqueIndex, db0, received, appended, chat, today >>

\* app.py: insert_one raises for whatever reason; the except clause of the
\* insert logs it as a lost race and the request goes on to read the month again.
InsertFailsHttp(r) ==
    /\ req[r].pc = "insert"
    /\ req[r].via = "http"
    /\ req' = [ req EXCEPT ![r].pc = "refind", ![r].insert_error = TRUE,
                           ![r].store_error = TRUE, ![r].month_doc = NoDoc ]
    /\ UNCHANGED << db, uniqueIndex, db0, received, appended, chat, today >>

\* recalculate_month_totals(None, previous_balance): doc.get raises
\* AttributeError when the month has no document after the $push matched none.
RecalculateNone(r) ==
    /\ req[r].pc = "recalculate"
    /\ req[r].updated_doc = NoDoc
    /\ req' = [ req EXCEPT ![r].pc = "done", ![r].result = ExceptionResult(req[r].via) ]
    /\ UNCHANGED << db, uniqueIndex, db0, received, appended, chat, today >>

\* ------------------------------------------------------------------ specification
\* A store no request has written to, or one holding December 2025 after a
\* single purchase of 2.
InitialStores ==
    { [ y \in Years |-> << >> ],
      [ y \in Years |->
          IF y = 2025
          THEN << [ month |-> "December",
                    daily_expenses |-> << [ date |-> <<2025, 12, 1>>, amount |-> 2 ] >>,
                    credits |-> << >>, total_expense |-> 2, balance |-> 2 ] >>
          ELSE << >> ] }

Init ==
    /\ db \in InitialStores
    /\ db0 = db
    /\ uniqueIndex \in BOOLEAN
    /\ req = [ r \in Workers |-> IdleRequest ]
    /\ received = 0
    /\ appended = [ k \in DatedKeys |-> [ t \in valid_types |-> 0 ] ]
    /\ chat = [ w \in Workers |-> IdleMessage ]
    /\ today = << 2026, 1, 15 >>

\* What a request does after it was received.
Serve(r) ==
    \/ FindMonth(r)
    \/ CreateSkeleton(r)
    \/ InsertMonth(r)
    \/ InsertRaceHttp(r)
    \/ RefindMonth(r)
    \/ InsertRaceChat(r)
    \/ PushEntry(r)
    \/ FetchUpdated(r)
    \/ Recalculate(r)
    \/ SetTotals(r)
    \/ FetchFinal(r)

Next == \E r \in Workers : Receive(r) \/ Serve(r)

Spec == Init /\ [][Next]_vars

\* Concurrent requests that are all dated in January 2026.
NextOneMonth == \E r \in Workers : ReceiveJanuary(r) \/ Serve(r)

SpecOneMonth == Init /\ [][NextOneMonth]_vars

\* Requests served one at a time: a request is received only while no other
\* is in flight, so no insert can meet a concurrent creator.
ReceiveAlone(r) ==
    /\ \A q \in Workers : ~InFlight(q)
    /\ Receive(r)

ServeAlone(r) ==
    \/ FindMonth(r)
    \/ CreateSkeleton(r)
    \/ InsertMonth(r)
    \/ PushEntry(r)
    \/ FetchUpdated(r)
    \/ Recalculate(r)
    \/ SetTotals(r)
    \/ FetchFinal(r)

NextSeq == \E r \in Workers : ReceiveAlone(r) \/ ServeAlone(r)

SpecSeq == Init /\ [][NextSeq]_vars

\* Concurrent requests on January 2026 against a store whose calls can fail.
NextFail ==
    \E r \in Workers :
        \/ ReceiveJanuary(r)
        \/ Serve(r)
        \/ StoreCallFails(r)
        \/ InsertFailsHttp(r)
        \/ RecalculateNone(r)

SpecFail == Init /\ [][NextFail]_vars

\* The days on which the chat updates of SpecChat arrive; no update races
\* another there, so whether the store has a unique index plays no part.
ChatDays == { << 2026, 1, 1 >>, << 2026, 1, 15 >> }

InitChat ==
    /\ db \in InitialStores
    /\ db0 = db
    /\ uniqueIndex = FALSE
    /\ req = [ r \in Workers |-> IdleRequest ]
    /\ received = 0
    /\ appended = [ k \in DatedKeys |-> [ t \in valid_types |-> 0 ] ]
    /\ chat = [ w \in Workers |-> IdleMessage ]
    /\ today \in ChatDays

\* Chat updates handled one at a time against a store whose calls can fail.
NextChat ==
    \E r \in Workers :
        \/ HandleWebhook(r, ChatUpdates)
        \/ ParseText(r)
        \/ Dispatch(r)
        \/ GenerateDueSummary(r)
        \/ DueSummaryFails(r)
        \/ GetCommandHelp(r)
        \/ ParseAmount(r)
        \/ ParseDate(r)
        \/ BeginLedger(r)
        \/ ServeAlone(r)
        \/ StoreCallFails(r)
        \/ FormatReceipt(r)
        \/ SendMessage(r)

SpecChat == InitChat /\ [][NextChat]_vars

\* Updates with every secret token, chat and text, handled one at a time
\* against a store whose calls can fail.
NextGate ==
    \E r \in Workers :
        \/ HandleWebhook(r, WebhookUpdates)
        \/ ParseText(r)
        \/ Dispatch(r)
        \/ GenerateDueSummary(r)
        \/ DueSummaryFails(r)
        \/ GetCommandHelp(r)
        \/ ParseAmount(r)
        \/ ParseDate(r)
        \/ BeginLedger(r)
        \/ ServeAlone(r)
        \/ StoreCallFails(r)
        \/ FormatReceipt(r)
        \/ SendMessage(r)

SpecGate == InitChat /\ [][NextGate]_vars

\* /purchase and /payment commands with every amount word and no date, one
\* at a time, against a store whose calls succeed.
NextAmount ==
    \E r \in Workers :
        \/ HandleWebhook(r, AmountUpdates)
        \/ ParseText(r)
        \/ Dispatch(r)
        \/ ParseAmount(r)
        \/ ParseDate(r)
        \/ BeginLedger(r)
        \/ ServeAlone(r)
        \/ FormatReceipt(r)
        \/ SendMessage(r)

SpecAmount == Init /\ [][NextAmount]_vars

InitDate ==
    /\ db \in InitialStores
    /\ db0 = db
    /\ uniqueIndex = FALSE
    /\ req = [ r \in Workers |-> IdleRequest ]
    /\ received = 0
    /\ appended = [ k \in DatedKeys |-> [ t \in valid_types |-> 0 ] ]
    /\ chat = [ w \in Workers |-> IdleMessage ]
    /\ today \in CurrentDates

\* /purchase and /payment commands with the amount 1 and every date text,
\* on every current date, up to the point where the date has been read.
NextDate ==
    \E r \in Workers :
        \/ HandleWebhook(r, DateUpdates)
        \/ ParseText(r)
        \/ Dispatch(r)
        \/ ParseAmount(r)
        \/ ParseDate(r)
        \/ SendMessage(r)

SpecDate == InitDate /\ [][NextDate]_vars

\* /purchase and /payment commands with the amount 1 and a date written in
\* the form of each format, on every current date, up to the point where
\* the date has been read.
NextFormat ==
    \E r \in Workers :
        \/ HandleWebhook(r, FormatUpdates)
        \/ ParseText(r)
        \/ Dispatch(r)
        \/ ParseAmount(r)
        \/ ParseDate(r)
        \/ SendMessage(r)

SpecFormat == InitDate /\ [][NextFormat]_vars

InitDue ==
    /\ db \in DueStores
    /\ db0 = db
    /\ uniqueIndex = FALSE
    /\ req = [ r \in Workers |-> IdleRequest ]
    /\ received = 0
    /\ appended = [ k \in DatedKeys |-> [ t \in valid_types |-> 0 ] ]
    /\ chat = [ w \in Workers |-> IdleMessage ]
    /\ today = << 2026, 1, 15 >>

\* /due commands, one at a time, on stores whose January 2026 record holds
\* up to six entries.
NextDue ==
    \E r \in Workers :
        \/ HandleWebhook(r, DueUpdates)
        \/ ParseText(r)
        \/ Dispatch(r)
        \/ GenerateDueSummary(r)
        \/ SendMessage(r)

SpecDue == InitDue /\ [][NextDue]_vars

\* The store after a purchase of 1 on 2026-01-15 and then a purchase of 1 on
\* 2025-12-31, one after the other, on the store that held December 2025:
\* January was created while December's balance was 2.
LaterStores ==
    { [ y \in Years |->
          IF y = 2025
          THEN << [ month |-> "December",
                    daily_expenses |-> << [ date |-> <<2025, 12, 1>>, amount |-> 2 ],
                                          [ date |-> <<2025, 12, 31>>, amount |-> 1 ] >>,
                    credits |-> << >>, total_expense |-> 3, balance |-> 3 ] >>
          ELSE << [ month |-> "January",
                    daily_expenses |-> << [ date |-> <<2026, 1, 15>>, amount |-> 1 ] >>,
                    credits |-> << >>, total_expense |-> 1, balance |-> 3 ] >> ] }

InitLater ==
    /\ db \in InitialStores \cup LaterStores
    /\ db0 = db
    /\ uniqueIndex \in BOOLEAN
    /\ req = [ r \in Workers |-> IdleRequest ]
    /\ received = 0
    /\ appended = [ k \in DatedKeys |-> [ t \in valid_types |-> 0 ] ]
    /\ chat = [ w \in Workers |-> IdleMessage ]
    /\ today = << 2026, 1, 15 >>

\* Requests served one at a time on a store that earlier requests, also
\* served one at a time, have left.
SpecLater == InitLater /\ [][NextSeq]_vars

\* An HTTP request is received while no request is in flight and no chat
\* update is being handled.
ReceiveQuiet(r) ==
    /\ \A q \in Workers : ~Handling(q)
    /\ ReceiveAlone(r)

\* Transactions over HTTP and over chat, one at a time, on the stores of
\* SpecLater.
NextBoth ==
    \E r \in Workers :
        \/ ReceiveQuiet(r)
        \/ HandleWebhook(r, LedgerUpdates)
        \/ ParseText(r)
        \/ Dispatch(r)
        \/ ParseAmount(r)
        \/ ParseDate(r)
        \/ BeginLedger(r)
        \/ ServeAlone(r)
        \/ FormatReceipt(r)
        \/ SendMessage(r)

SpecBoth == InitLater /\ [][NextBoth]_vars

\* The stores the concurrent requests on January 2026 start from: one
\* without a record for the month and one that holds it already.
InitJanuary ==
    /\ db \in { [ y \in Years |-> << >> ] } \cup LaterStores
    /\ db0 = db
    /\ uniqueIndex \in BOOLEAN
    /\ req = [ r \in Workers |-> IdleRequest ]
    /\ received = 0
    /\ appended = [ k \in DatedKeys |-> [ t \in valid_types |-> 0 ] ]
    /\ chat = [ w \in Workers |-> IdleMessage ]
    /\ today = << 2026, 1, 15 >>

SpecJanuary == InitJanuary /\ [][NextOneMonth]_vars

\* The store two overlapping purchases of 1 on January 2026 leave when the
\* request that read first sets its totals last.
RacedStores ==
    { [ y \in Years |->
          IF y = 2026
          THEN << [ month |-> "January",
                    daily_expenses |-> << [ date |-> <<2026, 1, 15>>, amount |-> 1 ],
                                          [ date |-> <<2026, 1, 15>>, amount |-> 1 ] >>,
                    credits |-> << >>, total_expense |-> 1, balance |-> 1 ] >>
          ELSE << >> ] }

\* Stores whose January 2026 record was appended to by a request that never
\* reached its $set: the totals are those of the skeleton.
StaleStores ==
    { [ y \in Years |->
          IF y = 2026
          THEN << [ month |-> "January",
                    daily_expenses |-> IF type = TRANSACTION_TYPE_PURCHASE
                                       THEN << [ date |-> <<2026, 1, 15>>, amount |-> 2 ] >>
                                       ELSE << >>,
                    credits |-> IF type = TRANSACTION_TYPE_PAYMENT
                                THEN << [ date |-> <<2026, 1, 15>>, amount |-> 2 ] >>
                                ELSE << >>,
                    total_expense |-> 0, balance |-> 0 ] >>
          ELSE << >> ] : type \in valid_types }

\* An HTTP request dated in January 2026 that passes validation.
ReceiveValidHttp(r) ==
    /\ ReceiveJanuary(r)
    /\ req'[r].via = "http"
    /\ req'[r].pc = "find"

InitRead ==
    /\ db \in InitialStores \cup StaleStores
    /\ db0 = db
    /\ uniqueIndex = FALSE
    /\ req = [ r \in Workers |-> IdleRequest ]
    /\ received = 0
    /\ appended = [ k \in DatedKeys |-> [ t \in valid_types |-> 0 ] ]
    /\ chat = [ w \in Workers |-> IdleMessage ]
    /\ today = << 2026, 1, 15 >>

\* Reads over HTTP and /due over chat, between and during requests that
\* append to January 2026.
NextRead ==
    \E r \in Workers :
        \/ ReceiveValidHttp(r)
        \/ ServeAlone(r)
        \/ GetChartData(r)
        \/ GetPrevMonthPaid(r)
        \/ GetMonthlyData(r)
        \/ HandleWebhook(r, DueUpdates)
        \/ ParseText(r)
        \/ Dispatch(r)
        \/ GenerateDueSummary(r)
        \/ SendMessage(r)

SpecRead == InitRead /\ [][NextRead]_vars

\* A request dated in January 2026 is received while no request is in
\* flight.
ReceiveJanuaryAlone(r) ==
    /\ \A q \in Workers : ~InFlight(q)
    /\ ReceiveJanuary(r)

InitRepair ==
    /\ db \in InitialStores \cup StaleStores \cup RacedStores
    /\ db0 = db
    /\ uniqueIndex = FALSE
    /\ req = [ r \in Workers |-> IdleRequest ]
    /\ received = 0
    /\ appended = [ k \in DatedKeys |-> [ t \in valid_types |-> 0 ] ]
    /\ chat = [ w \in Workers |-> IdleMessage ]
    /\ today = << 2026, 1, 15 >>

\* Requests on January 2026 served one at a time, on stores with and
\* without stale totals, against a store whose calls can fail.
NextRepair ==
    \E r \in Workers :
        \/ ReceiveJanuaryAlone(r)
        \/ ServeAlone(r)
        \/ StoreCallFails(r)

SpecRepair == InitRepair /\ [][NextRepair]_vars

\* ------------------------------------------------------------------ vocabulary of the claims
\* No request is in flight.
Quiescent == \A w \in Workers : ~InFlight(w)

\* The documents of a store for one (year, month), in natural order.
DocsOf(store, year, month_name) ==
    IF year \in DOMAIN store
    THEN SelectSeq(store[year], LAMBDA d : d.month = month_name)
    ELSE << >>

\* The calendar-previous (year, month) of a (year, month).
PreviousKey(k) ==
    IF k[2] = "January" THEN << k[1] - 1, "December" >>
    ELSE << k[1], MONTHS[(CHOOSE i \in DOMAIN MONTHS : MONTHS[i] = k[2]) - 1] >>

\* The stored balance of a (year, month), 0 when it has no record.
StoredBalance(k) ==
    IF DocsOf(db, k[1], k[2]) = << >> THEN 0 ELSE DocsOf(db, k[1], k[2])[1].balance

\* The previous month of k holds what it held when the behaviour started.
PreviousUntouched(k) ==
    DocsOf(db, PreviousKey(k)[1], PreviousKey(k)[2])
        = DocsOf(db0, PreviousKey(k)[1], PreviousKey(k)[2])

\* k had no record when the behaviour started and has one now.
CreatedHere(k) ==
    /\ DocsOf(db0, k[1], k[2]) = << >>
    /\ DocsOf(db, k[1], k[2]) # << >>

\* ------------------------------------------------------------------ C1
\* C1: when requests run one at a time, a month that had no record before the
\* first append and whose previous month's stored balance B stays as it was
\* ends, after the last append, with total_expense = sum of the appended
\* purchases and balance = B + that sum - sum of the appended payments.
C1_SequentialAppendsAddUp ==
    Quiescent =>
        \A k \in DatedKeys :
            CreatedHere(k) /\ PreviousUntouched(k) =>
                LET doc == DocsOf(db, k[1], k[2])[1] IN
                /\ doc.total_expense = appended[k][TRANSACTION_TYPE_PURCHASE]
                /\ doc.balance = StoredBalance(PreviousKey(k))
                                   + appended[k][TRANSACTION_TYPE_PURCHASE]
                                   - appended[k][TRANSACTION_TYPE_PAYMENT]

\* A fresh month with a non-zero inherited balance took a purchase and a payment.
C1_Witness ==
    /\ Quiescent
    /\ \E k \in DatedKeys :
          /\ CreatedHere(k) /\ PreviousUntouched(k)
          /\ StoredBalance(PreviousKey(k)) # 0
          /\ appended[k][TRANSACTION_TYPE_PURCHASE] > 0
          /\ appended[k][TRANSACTION_TYPE_PAYMENT] > 0

\* ------------------------------------------------------------------ C2
\* C2: once every concurrent request on one month has finished, every stored
\* record has total_expense = sum of its purchases and balance = inherited
\* balance + total_expense - sum of its payments.
C2_RecomputeCoversEveryAppend ==
    Quiescent =>
        \A y \in Years : \A i \in DOMAIN db[y] :
            LET doc == db[y][i] IN
            /\ doc.total_expense = SumAmounts(doc.daily_expenses)
            /\ doc.balance = StoredBalance(PreviousKey(<< y, doc.month >>))
                               + doc.total_expense - SumAmounts(doc.credits)

\* ------------------------------------------------------------------ C3
\* C3: the store never holds two records of one (year, month).
C3_OneRecordPerMonth ==
    \A k \in Keys : Len(DocsOf(db, k[1], k[2])) <= 1

\* ------------------------------------------------------------------ C4
\* C4: a request whose insert lost the creation race does not fail: it ends
\* with a success response and a returned record that holds its entry.
C4_RaceLoserSucceeds ==
    \A w \in Workers :
        req[w].insert_error /\ req[w].pc = "done" =>
            /\ req[w].result \in SuccessResults
            /\ req[w].final_doc # NoDoc

\* ------------------------------------------------------------------ C5
\* C5: with no request in flight, every stored record has balance = stored
\* balance of its calendar-previous month (0 if absent) + total_expense - sum
\* of its payments.
C5_BalanceFollowsPreviousMonth ==
    Quiescent =>
        \A y \in Years : \A i \in DOMAIN db[y] :
            LET doc == db[y][i] IN
            doc.balance = StoredBalance(PreviousKey(<< y, doc.month >>))
                            + doc.total_expense - SumAmounts(doc.credits)

\* ------------------------------------------------------------------ C6
\* C6: the inherited balance of January of year y is the stored balance of
\* December of y - 1, and 0 when that record is absent, whatever year y holds;
\* a January skeleton about to be inserted carries exactly that balance.
C6_JanuaryInheritsDecember ==
    /\ \A y \in Years \cup { 2027 } :
          get_previous_month_balance("January", y) =
              IF DocsOf(db, y - 1, "December") = << >> THEN 0
              ELSE DocsOf(db, y - 1, "December")[1].balance
    /\ \A w \in Workers :
          req[w].pc = "insert" /\ req[w].month_doc.month = "January" =>
              req[w].month_doc.balance = StoredBalance(<< req[w].date[1] - 1, "December" >>)

\* A January 2026 skeleton inherited December 2025's balance while December
\* 2026 holds another balance.
C6_Witness ==
    \E w \in Workers :
        /\ req[w].pc = "insert"
        /\ req[w].date = <<2026, 1, 15>>
        /\ req[w].month_doc.balance # 0
        /\ req[w].month_doc.balance = StoredBalance(<<2025, "December">>)
        /\ DocsOf(db, 2026, "December") # << >>
        /\ StoredBalance(<<2026, "December">>) # StoredBalance(<<2025, "December">>)

\* ------------------------------------------------------------------ C7
\* C7: for every month but January the inherited balance is the stored
\* balance of the month just before it in the same year, 0 when that record
\* is absent; the month before January is December, each other month's
\* predecessor is the name one place earlier.
C7_InheritsFromMonthBefore ==
    /\ \A k \in Keys :
          k[2] # "January" =>
              get_previous_month_balance(k[2], k[1]) = StoredBalance(PreviousKey(k))
    /\ get_previous_month_name("January") = "December"
    /\ \A i \in DOMAIN MONTHS : i > 1 => get_previous_month_name(MONTHS[i]) = MONTHS[i - 1]

\* December 2026 was created with nothing inherited, November 2026 being
\* absent, while January 2026 holds a non-zero balance.
C7_Witness ==
    /\ Quiescent
    /\ DocsOf(db, 2026, "November") = << >>
    /\ DocsOf(db, 2026, "December") # << >>
    /\ StoredBalance(<<2026, "January">>) # 0
    /\ get_previous_month_balance("December", 2026) = 0
    /\ StoredBalance(<<2026, "December">>) = appended[<<2026, "December">>][TRANSACTION_TYPE_PURCHASE]
                                             - appended[<<2026, "December">>][TRANSACTION_TYPE_PAYMENT]

\* ------------------------------------------------------------------ C8
AmountErrors ==
    { "400 Amount must be greater than zero", "Amount must be greater than zero." }

\* C8: a request whose amount is zero or negative ends, in the step that
\* receives it, with the amount error; that step leaves the store unchanged
\* and the request never reaches a step that creates a record, appends an
\* entry or sets totals (HTTP endpoint and chat command alike).
C8_NonPositiveAmountRejected ==
    [][ \A w \in Workers :
            req'[w].pc # "idle" /\ req'[w].amount <= 0 =>
                /\ req'[w].pc = "done"
                /\ req'[w].result \in AmountErrors
                /\ req'[w].final_doc = NoDoc
                /\ req'[w] # req[w] => db' = db ]_vars

\* A chat command with amount 0 was answered with the amount error after an
\* earlier request had written to the store.
C8_Witness ==
    \E w \in Workers :
        /\ req[w].pc = "done"
        /\ req[w].via = "chat"
        /\ req[w].amount = 0
        /\ req[w].result = "Amount must be greater than zero."
        /\ db # db0

\* ------------------------------------------------------------------ C9
\* The dates of the model that denote a calendar date.
CalendarDates == { <<2025, 12, 31>>, <<2026, 1, 15>>, <<2026, 2, 20>>, <<2026, 12, 5>> }

RejectionResults ==
    { "400 Amount must be greater than zero", "400 Invalid transaction type",
      "400 Invalid date format", "Amount must be greater than zero.",
      "Invalid date format" }

\* C9: a request with an unparseable date or with a type other than
\* purchase/payment ends, in the step that receives it, with an error; that
\* step leaves the store unchanged, the request never reaches a writing step,
\* and a finished request is never run again (its worker only moves on by
\* receiving a new request).
C9_InvalidDateOrTypeRejected ==
    [][ \A w \in Workers :
            /\ ( /\ req'[w].pc # "idle"
                 /\ \/ req'[w].type \notin { "purchase", "payment" }
                    \/ req'[w].date \notin CalendarDates )
               => /\ req'[w].pc = "done"
                  /\ req'[w].result \in RejectionResults
                  /\ req'[w].final_doc = NoDoc
                  /\ req'[w] # req[w] => db' = db
            /\ req[w].pc = "done" /\ req'[w] # req[w] => received' = received + 1 ]_vars

\* An HTTP request with a valid amount and type but the date 2026-02-30 got
\* the date error after an earlier request had written to the store.
C9_Witness ==
    \E w \in Workers :
        /\ req[w].pc = "done"
        /\ req[w].via = "http"
        /\ req[w].amount > 0
        /\ req[w].type = "payment"
        /\ req[w].date = <<2026, 2, 30>>
        /\ req[w].result = "400 Invalid date format"
        /\ db # db0

\* ------------------------------------------------------------------ C10
\* The sequence without its i-th element.
RemoveAt(seq, i) == SubSeq(seq, 1, i - 1) \o SubSeq(seq, i + 1, Len(seq))

\* The stored totals of doc are those recomputed from its arrays p and c.
TotalsOf(doc, inherited, p, c) ==
    /\ doc.total_expense = SumAmounts(p)
    /\ doc.balance = inherited + SumAmounts(p) - SumAmounts(c)

\* C10 as stated: in every state the stored totals of every record are those
\* recomputed from its arrays, or from its arrays less one entry.
C10_LagAtMostOneEntry ==
    \A y \in Years : \A i \in DOMAIN db[y] :
        LET doc == db[y][i]
            inherited == StoredBalance(PreviousKey(<< y, doc.month >>))
        IN \/ TotalsOf(doc, inherited, doc.daily_expenses, doc.credits)
           \/ \E n \in DOMAIN doc.daily_expenses :
                 TotalsOf(doc, inherited, RemoveAt(doc.daily_expenses, n), doc.credits)
           \/ \E n \in DOMAIN doc.credits :
                 TotalsOf(doc, inherited, doc.daily_expenses, RemoveAt(doc.credits, n))

\* C10 (amended): in every state the stored totals of every record are those
\* recomputed from a prefix of its purchases and a prefix of its payments (an
\* earlier snapshot of the record); the entries not yet covered are the most
\* recently appended ones, and there can be more than one of them.
C10_TotalsOfAnEarlierSnapshot ==
    \A y \in Years : \A i \in DOMAIN db[y] :
        LET doc == db[y][i]
            inherited == StoredBalance(PreviousKey(<< y, doc.month >>))
        IN \E n \in 0 .. Len(doc.daily_expenses), m \in 0 .. Len(doc.credits) :
              TotalsOf(doc, inherited, SubSeq(doc.daily_expenses, 1, n),
                       SubSeq(doc.credits, 1, m))

\* Two requests have appended a purchase and a payment to January 2026 and
\* neither has set the totals: the stored totals lag by two entries.
C10_Witness ==
    /\ \A w \in Workers : req[w].pc \in { "fetch", "recalculate", "set" }
    /\ LET doc == DocsOf(db, 2026, "January")[1] IN
       /\ Len(doc.daily_expenses) = 1
       /\ Len(doc.credits) = 1
       /\ doc.daily_expenses[1].amount # doc.credits[1].amount
       /\ doc.total_expense = 0
       /\ doc.balance = StoredBalance(<<2025, "December">>)
       /\ doc.balance # 0

\* ------------------------------------------------------------------ C11
\* C11: every step that adds a record to a collection adds it for a (year,
\* month) that had no record before the step, and the record added has empty
\* purchases and payments arrays, total_expense = 0 and balance = the
\* inherited balance of the previous month as stored at that step (0 if that
\* record is absent).
C11_CreatedOnceAsSkeleton ==
    [][ \A y \in Years :
            Len(db'[y]) > Len(db[y]) =>
                LET doc == db'[y][Len(db'[y])] IN
                /\ DocsOf(db, y, doc.month) = << >>
                /\ doc.daily_expenses = << >>
                /\ doc.credits = << >>
                /\ doc.total_expense = 0
                /\ doc.balance = get_previous_month_balance(doc.month, y) ]_vars

\* ------------------------------------------------------------------ C12
\* s is an initial segment of t.
IsPrefix(s, t) == Len(s) <= Len(t) /\ SubSeq(t, 1, Len(s)) = s

\* C12: in every step, every stored record is still stored at its place
\* after the step with the same month, each of its two arrays before the step
\* is a prefix of that array after the step (entries are only appended at the
\* end), and nothing but the arrays, total_expense and balance differs.
C12_RecordsOnlyGrow ==
    [][ \A y \in Years :
            /\ Len(db'[y]) >= Len(db[y])
            /\ \A i \in DOMAIN db[y] :
                  /\ IsPrefix(db[y][i].daily_expenses, db'[y][i].daily_expenses)
                  /\ IsPrefix(db[y][i].credits, db'[y][i].credits)
                  /\ [ db'[y][i] EXCEPT !.daily_expenses = << >>, !.credits = << >>,
                                        !.total_expense = 0, !.balance = 0 ]
                       = [ db[y][i] EXCEPT !.daily_expenses = << >>, !.credits = << >>,
                                           !.total_expense = 0, !.balance = 0 ] ]_vars

\* January 2026 holds two purchases of different amounts in the order they
\* were appended, next to an older record that was not touched.
C12_Witness ==
    /\ DocsOf(db, 2025, "December") = DocsOf(db0, 2025, "December")
    /\ DocsOf(db0, 2025, "December") # << >>
    /\ DocsOf(db, 2026, "January") # << >>
    /\ LET doc == DocsOf(db, 2026, "January")[1] IN
       /\ Len(doc.daily_expenses) = 2
       /\ doc.daily_expenses[1].amount = 1
       /\ doc.daily_expenses[2].amount = 2
       /\ doc.total_expense = 3

\* ------------------------------------------------------------------ C13
\* The entry is one of the elements of the array.
Contains(items, entry) == \E n \in DOMAIN items : items[n] = entry

\* C13: the record returned by a request that ended with success holds the
\* request's entry in the array of its kind, its total_expense is the sum of
\* its own purchases and its balance is the inherited balance + total_expense
\* - the sum of its own payments, whatever other requests on the same month
\* did in between.
C13_ReturnedRecordFullyUpdated ==
    \A w \in Workers :
        req[w].pc = "done" /\ req[w].result \in SuccessResults =>
            LET doc == req[w].final_doc
                entry == [ date |-> req[w].date, amount |-> req[w].amount ]
            IN /\ Contains(IF req[w].type = TRANSACTION_TYPE_PURCHASE
                           THEN doc.daily_expenses ELSE doc.credits, entry)
               /\ doc.total_expense = SumAmounts(doc.daily_expenses)
               /\ doc.balance = get_previous_month_balance(doc.month, Year(w))
                                  + doc.total_expense - SumAmounts(doc.credits)

\* ------------------------------------------------------------------ C14
\* Inherited balances recompute is applied with.
InheritedBalances == { -1, 0, 2, 3 }

\* The records recompute is applied to: every stored one and every one a
\* request holds between its fetch and its set.
RecomputeInputs ==
    UNION { { db[y][i] : i \in DOMAIN db[y] } : y \in Years }
        \cup { req[w].updated_doc : w \in { v \in Workers : req[v].pc \in { "recalculate", "set" } } }

\* C14: for every record and inherited balance, recompute applied to its own
\* result with the same inherited balance gives that result again, and its
\* result has the month and the two arrays of the record it was applied to.
C14_RecomputeIdempotent ==
    \A doc \in RecomputeInputs : \A previous_balance \in InheritedBalances :
        LET once == recalculate_month_totals(doc, previous_balance)
            twice == recalculate_month_totals(once, previous_balance)
        IN /\ twice = once
           /\ once.month = doc.month
           /\ once.daily_expenses = doc.daily_expenses
           /\ once.credits = doc.credits

\* A stored record with purchases and payments whose stored totals are out of
\* date (recompute changes it), while a request holds the recomputed record
\* it is about to set.
C14_Witness ==
    /\ \E doc \in RecomputeInputs :
          /\ doc.daily_expenses # << >>
          /\ doc.credits # << >>
          /\ \A previous_balance \in InheritedBalances :
                recalculate_month_totals(doc, previous_balance) # doc
    /\ \E w \in Workers :
          /\ req[w].pc = "set"
          /\ req[w].updated_doc.total_expense > 0

\* ------------------------------------------------------------------ C15
\* C15: the step in which a store call of a request fails ends that request
\* with an error result, and from then on the request takes no step at all:
\* no further store call, no second attempt of the failed call (its worker
\* only moves on by receiving a new request).
C15_FailedCallEndsRequest ==
    [][ \A w \in Workers :
            /\ ~req[w].store_error /\ req'[w].store_error =>
                  /\ req'[w].pc = "done"
                  /\ req'[w].result \in ErrorResults
            /\ req[w].store_error /\ req'[w] # req[w] => received' = received + 1 ]_vars

\* ------------------------------------------------------------------ C16
\* The branch the command table gives the name an update was written from.
SelectedBy(name) ==
    CASE name = << "/", "d", "u", "e" >> -> "Due"
      [] name = << "/", "h", "e", "l", "p" >> -> "Help"
      [] name = << "/", "s", "t", "a", "r", "t" >> -> "Help"
      [] name = << "/", "p", "u", "r", "c", "h", "a", "s", "e" >> -> "TransactionCommand"
      [] name = << "/", "p", "a", "y", "m", "e", "n", "t" >> -> "TransactionCommand"
      [] OTHER -> "Unrecognized"

\* C16: the branch taken for an update is the one its first word selects,
\* whatever the letter case of that word, whatever follows an '@' in it and
\* whatever follows the word: due for /due, help for /help and /start, a
\* transaction for /purchase and /payment, none for any other word.  An
\* update with another first word, or with no word at all, has no response,
\* is never answered and no step of its handling changes the store.
C16_FirstWordSelects ==
    [][ /\ \A w \in Workers :
              /\ chat'[w].branch # "" => chat'[w].branch = SelectedBy(chat'[w].update.name)
              /\ chat'[w].branch = "Unrecognized" \/ chat'[w].stage = "Ignored" =>
                    /\ chat'[w].response = ""
                    /\ chat'[w].sent = 0
                    /\ chat'[w] # chat[w] \/ req'[w] # req[w] => db' = db
        /\ \A text \in { << >>, << " " >>, << " ", "\t" >> } : split(strip(text)) = << >> ]_vars

\* After a purchase was recorded, the update "/DUES@due 1" was taken as no
\* command although the command word /due follows its '@'.
C16_Witness ==
    /\ db # db0
    /\ \E w \in Workers :
          /\ chat[w].stage = "Unrecognized"
          /\ chat[w].update.text = << "/", "D", "U", "E", "S", "@", "d", "u", "e", " ", "1" >>
          /\ chat[w].command = << "/", "d", "u", "e", "s" >>

\* ------------------------------------------------------------------ C17
\* The stage a message can be in right after each stage.
StageSteps ==
    { << "Received", "Parsed" >>, << "Received", "Unrecognized" >>,
      << "Parsed", "Due" >>, << "Parsed", "Help" >>, << "Parsed", "TransactionCommand" >>,
      << "Parsed", "Unrecognized" >>,
      << "Due", "ResponseFormatted" >>, << "Help", "ResponseFormatted" >>,
      << "TransactionCommand", "AmountParsed" >>, << "TransactionCommand", "ResponseFormatted" >>,
      << "AmountParsed", "DateParsed" >>, << "AmountParsed", "ResponseFormatted" >>,
      << "DateParsed", "Ledger" >>, << "Ledger", "ResponseFormatted" >>,
      << "ResponseFormatted", "Sent" >> }

\* C17: every message goes from Received to Parsed and from there to exactly
\* one of Due, Help, TransactionCommand and Unrecognized, and ends with its
\* response formatted and then sent, or as Unrecognized.  A step changes the
\* store only for a message on the TransactionCommand branch whose response
\* is not yet formatted; a message is sent at most one response, and an
\* Unrecognized message none.
C17_MessageStateMachine ==
    [][ \A w \in Workers :
            /\ chat'[w].stage # chat[w].stage =>
                  \/ << chat[w].stage, chat'[w].stage >> \in StageSteps
                  \/ chat[w].stage \in FinalStages /\ chat'[w].stage \in { "Received", "Ignored" }
            /\ chat'[w].sent <= 1
            /\ chat'[w].sent = 1 <=> chat'[w].stage = "Sent"
            /\ chat'[w].stage = "Unrecognized" => chat'[w].sent = 0 /\ chat'[w].response = ""
            /\ (chat'[w] # chat[w] \/ req'[w] # req[w]) /\ db' # db =>
                  /\ chat[w].branch = "TransactionCommand"
                  /\ chat[w].stage = "Ledger" /\ chat'[w].stage = "Ledger"
                  /\ chat[w].response = "" /\ chat[w].sent = 0 ]_vars

\* A /payment message has been answered once, after its entry was appended
\* and the totals were set.
C17_Witness ==
    \E w \in Workers :
        /\ chat[w].stage = "Sent"
        /\ chat[w].branch = "TransactionCommand"
        /\ chat[w].command = PAYMENT
        /\ chat[w].sent = 1
        /\ chat[w].response = "Recorded"
        /\ Contains(req[w].final_doc.credits, [ date |-> req[w].date, amount |-> req[w].amount ])
        /\ db # db0

\* ------------------------------------------------------------------ C18
\* The texts process_command returns to be sent to the chat.
UserTexts ==
    { "Grocery Due Summary", "No transactions yet", "Error generating summary", "Commands",
      "Missing amount", "Invalid amount", "Amount must be greater than zero.",
      "Invalid date format", "Recorded", "Error recording" }

\* C18: whatever follows a recognized command word and whichever store call
\* fails while the command is processed, the command ends with one of the
\* user-facing texts as its response: each request of a chat command ends
\* with the receipt or the error text, and a recognized command whose
\* handling is over was answered with a user-facing text.
C18_RecognizedCommandGetsText ==
    \A w \in Workers :
        /\ chat[w].stage = "Ledger" /\ req[w].pc = "done" =>
              req[w].result \in { "Recorded", "Error recording" }
        /\ chat[w].branch \in { "Due", "Help", "TransactionCommand" } =>
              /\ chat[w].stage \in { "ResponseFormatted", "Sent" } => chat[w].response \in UserTexts
              /\ chat[w].stage \in FinalStages => chat[w].stage = "Sent"
              /\ chat[w].stage \in { "Due", "Help", "TransactionCommand", "AmountParsed",
                                     "DateParsed", "Ledger", "ResponseFormatted", "Sent" }

\* A /purchase command of which a store call failed after its entry was
\* appended, leaving the totals behind, was answered with the error text.
C18_Witness ==
    \E w \in Workers :
        /\ chat[w].stage = "Sent"
        /\ chat[w].branch = "TransactionCommand"
        /\ req[w].store_error
        /\ chat[w].response = "Error recording"
        /\ \E y \in Years : \E i \in DOMAIN db[y] :
              /\ db[y][i].daily_expenses # << >>
              /\ db[y][i].total_expense # SumAmounts(db[y][i].daily_expenses)

\* ------------------------------------------------------------------ C19
\* Amount words that are no number once their commas are removed.
NoNumberWords ==
    { << "a", "b", "c" >>, << "5", "a" >>, << "a", "5" >>, << "1", ".", "2", ".", "3" >>,
      << "," >>, << "-" >>, << "+" >>, << "." >>, << "-", "-", "5" >>, << "5", "-" >>,
      << "n", "a", "n" >>, << "N", "a", "N" >>, << "N", "A", "N" >>, << "-", "n", "a", "n" >>,
      << "i", "n", "f" >>, << "I", "n", "f" >>, << "+", "i", "n", "f" >>,
      << "-", "i", "n", "f" >>, << "i", "n", "f", "i", "n", "i", "t", "y" >>,
      << "I", "N", "F", "I", "N", "I", "T", "Y" >> }

\* Amount words whose value is zero or negative.
NonPositiveWords ==
    { << "0" >>, << "-", "5" >>, << "-", "0" >>, << "0", ".", "0" >>, << "0", ".", "0", "0" >>,
      << "-", "1", ".", "5" >>, << "-", "2", ",", "5", "0", "0" >> }

\* The whole numbers some amount words denote.
WholeWords ==
    { [ word |-> << "1" >>, units |-> 1 ],
      [ word |-> << "2" >>, units |-> 2 ],
      [ word |-> << "2", ",", "5", "0", "0" >>, units |-> 2500 ],
      [ word |-> << "1", ",", "0", "0", "0", ",", "0", "0", "0" >>, units |-> 1000000 ],
      [ word |-> << "1", ",", ",", "2" >>, units |-> 12 ],
      [ word |-> << "+", "5" >>, units |-> 5 ],
      [ word |-> << "5", "." >>, units |-> 5 ],
      [ word |-> << "0", "0", "7" >>, units |-> 7 ] }

InvalidAmountTexts == { "Invalid amount", "Amount must be greater than zero." }

\* C19: a command whose amount word is no number, or denotes zero or a
\* negative value, is answered with an invalid-amount text and begins no
\* request on the ledger; a word that denotes a whole number above zero is
\* read as that number with its commas removed ("2,500" as 2500) and that is
\* the amount that gets recorded; the outcome depends on the word only, not
\* on whether /purchase or /payment carries it.
C19_AmountWordOutcome ==
    \A w \in Workers :
        chat[w].stage \in { "AmountParsed", "DateParsed", "Ledger", "ResponseFormatted", "Sent" }
            /\ Len(chat[w].parts) >= 2 =>
            LET word == chat[w].parts[2] IN
            /\ word \in NoNumberWords \cup NonPositiveWords =>
                  /\ chat[w].response \in InvalidAmountTexts
                  /\ req[w] = IdleRequest
            /\ \A known \in WholeWords :
                  known.word = word =>
                      /\ chat[w].response \notin InvalidAmountTexts
                      /\ chat[w].amount = [ ok |-> TRUE, kind |-> "finite", negative |-> FALSE,
                                            units |-> known.units, fraction |-> << >> ]
                      /\ req[w].pc # "idle" => req[w].amount = known.units

\* ------------------------------------------------------------------ C20
\* The literal today, and the literal yesterday, in several letter cases.
TodaySpellings ==
    { << "t", "o", "d", "a", "y" >>,
      << "T", "O", "D", "A", "Y" >>,
      << "T", "o", "d", "a", "y" >>,
      << "t", "o", "D", "A", "Y" >> }

YesterdaySpellings ==
    { << "y", "e", "s", "t", "e", "r", "d", "a", "y" >>,
      << "Y", "E", "S", "T", "E", "R", "D", "A", "Y" >>,
      << "Y", "e", "s", "t", "e", "r", "d", "a", "y" >>,
      << "y", "e", "s", "t", "e", "r", "D", "A", "Y" >> }

\* The calendar day before each current date the messages are handled on.
PreviousDay(now) ==
    CASE now = << 2026, 1, 1 >> -> << 2025, 12, 31 >>
      [] now = << 2026, 3, 1 >> -> << 2026, 2, 28 >>
      [] now = << 2024, 3, 1 >> -> << 2024, 2, 29 >>
      [] now = << 2026, 5, 1 >> -> << 2026, 4, 30 >>
      [] now = << 2026, 5, 31 >> -> << 2026, 5, 30 >>
      [] now = << 2026, 1, 15 >> -> << 2026, 1, 14 >>

\* The words of a message after the amount, once its date has been parsed.
DateWords(w) == SubSeq(chat[w].parts, 3, Len(chat[w].parts))

DateWasParsed(w) ==
    chat[w].stage = "DateParsed" \/ chat[w].response = "Invalid date format"

\* C20: a message without date words, or whose only date word is today in
\* any letter case, gets the current date; one whose only date word is
\* yesterday in any letter case gets the day before the current date, across
\* month and year boundaries (28 or 29 February, 30 April, 31 December); in
\* both cases no date format has been tried.
C20_TodayAndYesterday ==
    \A w \in Workers :
        DateWasParsed(w) =>
            /\ DateWords(w) = << >> \/ (Len(DateWords(w)) = 1 /\ DateWords(w)[1] \in TodaySpellings) =>
                  chat[w].date = [ success |-> TRUE, date |-> today, tried |-> 0 ]
            /\ Len(DateWords(w)) = 1 /\ DateWords(w)[1] \in YesterdaySpellings =>
                  chat[w].date = [ success |-> TRUE, date |-> PreviousDay(today), tried |-> 0 ]

\* A message sent on 1 January 2026 with the date word YESTERDAY is dated
\* 31 December 2025.
C20_Witness ==
    \E w \in Workers :
        /\ DateWasParsed(w)
        /\ today = << 2026, 1, 1 >>
        /\ DateWords(w) = << << "Y", "E", "S", "T", "E", "R", "D", "A", "Y" >> >>
        /\ chat[w].date = [ success |-> TRUE, date |-> << 2025, 12, 31 >>, tried |-> 0 ]

\* ------------------------------------------------------------------ C21
\* Whether the message of worker w carries the date written in the form of
\* the i-th format.
Carries(w, i, date, style) ==
    DateWords(w) = split(Written(formats_to_try[i].format, date, style))

\* The first format that accepts a date written in the form of the i-th
\* one: May is its own abbreviation, so the forms with the long month name
\* are accepted by the format with the short name that stands before them.
FirstAccepting(i, date) == IF date[2] = 5 /\ i \in { 6, 8, 12 } THEN i - 1 ELSE i

\* The forms that name a year.
FormsWithYear == 1 .. 8

\* The calendar of a year, written out.
MonthLengths(year) ==
    << 31, IF year \in { 2024, 2028 } THEN 29 ELSE 28, 31, 30, 31, 30, 31, 31, 30, 31, 30, 31 >>

\* C21: a date written in the form of a format is read by the first format
\* of the list that accepts it; written with a year it gives that calendar
\* date; written without a year it gives that day and month in the current
\* year whenever the current year has such a day; a text no format accepts
\* is answered "Invalid date format" and begins no request on the ledger.
C21_FirstMatchingFormat ==
    \A w \in Workers :
        DateWasParsed(w) =>
            /\ \A i \in DOMAIN formats_to_try, date \in WrittenDates, style \in Styles :
                  Carries(w, i, date, style) =>
                      LET year == IF i \in FormsWithYear THEN date[1] ELSE today[1] IN
                      date[3] <= MonthLengths(year)[date[2]] =>
                          chat[w].date = [ success |-> TRUE,
                                           date |-> << year, date[2], date[3] >>,
                                           tried |-> FirstAccepting(i, date) ]
            /\ ~chat[w].date.success =>
                  /\ chat[w].date.tried = Len(formats_to_try)
                  /\ chat[w].response = "Invalid date format"
                  /\ req[w] = IdleRequest
                  /\ db = db0

\* ------------------------------------------------------------------ C22
\* The four forms of the claim, written out on their own: day/month/year,
\* day-month-year, day short-name year, day long-name year.
SlashForm == << "%d", "/", "%m", "/", "%Y" >>

DashForm == << "%d", "-", "%m", "-", "%Y" >>

ShortNameForm == << "%d", " ", "%b", " ", "%Y" >>

LongNameForm == << "%d", " ", "%B", " ", "%Y" >>

ExplicitYearForms == { SlashForm, DashForm, ShortNameForm, LongNameForm }

\* C22: a calendar date typed with its year in the day-first slash form, the
\* day-first dash form, the short-month-name form or the long-month-name
\* form, in any of the styles, is read as that one date, so all these forms
\* of a date give the same result and the same month and year to book to.
C22_FormsAgree ==
    \A w \in Workers :
        DateWasParsed(w) =>
            \A form \in ExplicitYearForms, date \in WrittenDates, style \in Styles :
                /\ DateWords(w) = split(Written(form, date, style))
                /\ date[3] <= MonthLengths(date[1])[date[2]]
                => /\ chat[w].date.success
                   /\ chat[w].date.date = date
                   /\ get_month_name_from_date(chat[w].date.date) = MONTHS[date[2]]

\* "15 JANUARY 2026" has been read as 15 January 2026, and so has "15/1/2026"
\* in the message before it or after it.
C22_Witness ==
    \E w \in Workers :
        /\ DateWasParsed(w)
        /\ DateWords(w) \in { split(Written(LongNameForm, << 2026, 1, 15 >>, "capitals")),
                              split(Written(SlashForm, << 2026, 1, 15 >>, "plain")) }
        /\ chat[w].date.date = << 2026, 1, 15 >>
        /\ received = 2

\* ------------------------------------------------------------------ C23
\* The record of the current month, as stored.
CurrentMonthDoc == find_one(get_collection_by_year(today[1]), MONTHS[today[2]])

\* The stored entries in their original order, purchases before payments:
\* entry q is a purchase for q up to the number of purchases.
EntryCount == Len(CurrentMonthDoc.daily_expenses) + Len(CurrentMonthDoc.credits)

EntryAt(q) ==
    IF q <= Len(CurrentMonthDoc.daily_expenses)
    THEN [ kind |-> "Purchase", amount |-> CurrentMonthDoc.daily_expenses[q].amount,
           date |-> CurrentMonthDoc.daily_expenses[q].date ]
    ELSE LET c == CurrentMonthDoc.credits[q - Len(CurrentMonthDoc.daily_expenses)]
         IN [ kind |-> "Payment", amount |-> c.amount, date |-> c.date ]

IsStoredEntry(txn) == \E q \in 1 .. EntryCount : EntryAt(q) = txn

\* The position of a stored entry (the stored entries of the model differ
\* from one another in kind or amount).
PositionOf(txn) == CHOOSE q \in 1 .. EntryCount : EntryAt(q) = txn

\* The day count a date is ordered by.
DayNumber(date) == date[1] * 372 + date[2] * 31 + date[3]

\* Whether the listing shows the stored entries at the positions pos, in
\* that order.
ShowsPositions(listing, pos) ==
    /\ DOMAIN pos = DOMAIN listing
    /\ \A i \in DOMAIN listing : pos[i] \in 1 .. EntryCount /\ listing[i] = EntryAt(pos[i])
    /\ \A i, j \in DOMAIN pos : i < j =>
          \/ DayNumber(EntryAt(pos[i]).date) > DayNumber(EntryAt(pos[j]).date)
          \/ DayNumber(EntryAt(pos[i]).date) = DayNumber(EntryAt(pos[j]).date) /\ pos[i] < pos[j]
    /\ \A q \in 1 .. EntryCount : (\A i \in DOMAIN pos : pos[i] # q) =>
          \A i \in DOMAIN pos :
              \/ DayNumber(EntryAt(pos[i]).date) > DayNumber(EntryAt(q).date)
              \/ DayNumber(EntryAt(pos[i]).date) = DayNumber(EntryAt(q).date) /\ pos[i] < q

\* C23: the recent activity of a due summary shows 5 entries of the current
\* month, or all of them when there are fewer; they are distinct stored
\* entries, ordered by date from the latest on, entries of one date in
\* their original order (purchases in array order, then payments in array
\* order), and every entry left out is older than every entry shown or has
\* the date of a shown entry and stands behind it in the original order.
C23_RecentActivity ==
    \A w \in Workers :
        chat[w].response = "Grocery Due Summary" =>
            /\ Len(chat[w].recent) = IF EntryCount < 5 THEN EntryCount ELSE 5
            /\ \A i \in DOMAIN chat[w].recent : IsStoredEntry(chat[w].recent[i])
            /\ ShowsPositions(chat[w].recent,
                              [ i \in DOMAIN chat[w].recent |-> PositionOf(chat[w].recent[i]) ])

\* Six entries are stored, purchases and payments of one date among them,
\* five are shown and a payment of the date of the last shown entry is
\* left out.
C23_Witness ==
    \E w \in Workers :
        /\ chat[w].response = "Grocery Due Summary"
        /\ EntryCount = 6
        /\ Len(chat[w].recent) = 5
        /\ chat[w].recent[1].kind = "Payment"
        /\ chat[w].recent[4].kind = "Purchase" /\ chat[w].recent[5].kind = "Payment"
        /\ chat[w].recent[4].date = chat[w].recent[5].date
        /\ \E c \in DOMAIN CurrentMonthDoc.credits :
              /\ CurrentMonthDoc.credits[c].date = chat[w].recent[5].date
              /\ CurrentMonthDoc.credits[c].amount > chat[w].recent[5].amount

\* ------------------------------------------------------------------ C24
ReadVias == { "chart-data", "prev-month-paid", "monthly-data" }

\* A step in which worker w answers a read request over HTTP or produces
\* the due summary.
IsReadStep(w) ==
    \/ req'[w].via \in ReadVias /\ req'[w] # req[w]
    \/ chat[w].stage = "Due" /\ chat'[w].stage = "ResponseFormatted"

\* Whether some stored total disagrees with the arrays of its record.
SomeTotalStale ==
    \E y \in Years : \E i \in DOMAIN db[y] :
        db[y][i].total_expense # SumAmounts(db[y][i].daily_expenses)

\* C24: a step that answers the chart data, the previous-month-paid total or
\* the monthly data, or that produces the due summary, leaves the store
\* exactly as it was: no record is created, nothing is appended and no
\* stored total changes, whether or not the month asked for exists and
\* whether or not the stored totals are stale.
C24_ReadsLeaveStore ==
    [][ \A w \in Workers : IsReadStep(w) => db' = db ]_vars

\* Every read path has run on a store that holds a stale total and lacks a
\* month that was asked for: the chart data with zeros for November and
\* December 2025, or the due summary of January 2026 with a total of 0 over
\* a stored purchase, and the store is still stale afterwards.
C24_Witness ==
    /\ SomeTotalStale
    /\ db[2025] = << >>
    /\ \E w \in Workers :
          /\ req[w].via = "chart-data" /\ Len(req[w].read) = 3
          /\ req[w].read[1].purchases = 0 /\ req[w].read[2].month_full = "December"
    /\ \E w \in Workers : chat[w].response = "Grocery Due Summary"

\* ------------------------------------------------------------------ C25
\* The record of a (year, month) when the behaviour started; the skeleton a
\* request would have created for it when it had none.
RecordBefore(k) ==
    IF DocsOf(db0, k[1], k[2]) # << >> THEN DocsOf(db0, k[1], k[2])[1]
    ELSE [ month |-> k[2], daily_expenses |-> << >>, credits |-> << >>, total_expense |-> 0,
           balance |-> IF DocsOf(db0, PreviousKey(k)[1], PreviousKey(k)[2]) = << >> THEN 0
                       ELSE DocsOf(db0, PreviousKey(k)[1], PreviousKey(k)[2])[1].balance ]

\* C25: after the first request of a one-at-a-time run has appended amount a
\* to a month, a payment has left the month's total_expense and purchases as
\* they were and lowered its balance by a, a purchase has raised total_expense
\* and balance by a and left the payments as they were, and the records of
\* all other months are as they were.
C25_AppendShiftsBalanceByAmount ==
    \A w \in Workers :
        Quiescent /\ received = 1 /\ req[w].result \in SuccessResults =>
            LET k == << Year(w), MonthName(w) >>
                earlier == RecordBefore(k)
                later == DocsOf(db, k[1], k[2])[1]
                a == req[w].amount
            IN /\ req[w].type = TRANSACTION_TYPE_PAYMENT =>
                    /\ later.total_expense = earlier.total_expense
                    /\ later.daily_expenses = earlier.daily_expenses
                    /\ later.balance = earlier.balance - a
               /\ req[w].type = TRANSACTION_TYPE_PURCHASE =>
                    /\ later.total_expense = earlier.total_expense + a
                    /\ later.balance = earlier.balance + a
                    /\ later.credits = earlier.credits
               /\ \A other \in Keys \ { k } :
                    DocsOf(db, other[1], other[2]) = DocsOf(db0, other[1], other[2])

\* ------------------------------------------------------------------ C26
\* The store the ledger operation leaves when it runs alone on a store: the
\* month's record, created if it was absent, holds the entry at the end of
\* the array of its kind and the totals of its arrays over the balance the
\* previous month has in that store; nothing else differs.
LedgerResult(store, date, type, amount) ==
    LET k == << date[1], MONTHS[date[2]] >>
        previous == DocsOf(store, PreviousKey(k)[1], PreviousKey(k)[2])
        inherited == IF previous = << >> THEN 0 ELSE previous[1].balance
        existing == DocsOf(store, k[1], k[2])
        entry == [ date |-> date, amount |-> amount ]
        purchases == (IF existing = << >> THEN << >> ELSE existing[1].daily_expenses)
                        \o (IF type = TRANSACTION_TYPE_PURCHASE THEN << entry >> ELSE << >>)
        payments == (IF existing = << >> THEN << >> ELSE existing[1].credits)
                        \o (IF type = TRANSACTION_TYPE_PAYMENT THEN << entry >> ELSE << >>)
        record == [ month |-> k[2], daily_expenses |-> purchases, credits |-> payments,
                    total_expense |-> SumAmounts(purchases),
                    balance |-> inherited + SumAmounts(purchases) - SumAmounts(payments) ]
    IN [ store EXCEPT ![k[1]] =
           IF existing = << >> THEN Append(@, record)
           ELSE [ @ EXCEPT ![CHOOSE i \in DOMAIN @ : @[i].month = k[2]] = record ] ]

\* The responses with which a request is turned away before its first store
\* call.
ValidationResults ==
    { "400 Amount must be greater than zero", "400 Invalid transaction type",
      "400 Invalid date format", "Amount must be greater than zero.", "Invalid date format" }

\* C26: the first transaction of a one-at-a-time run, whether it came over
\* HTTP or as a chat command, leaves the store that the one ledger operation
\* gives for its date, kind and amount on the store it started from (same
\* record created or reused, same entry in the same array, same
\* total_expense and balance); a request that does not end in success was
\* turned away by validation and left the store as it was.
C26_HttpAndChatSameOperation ==
    \A w \in Workers :
        Quiescent /\ received = 1 /\ req[w].pc = "done" =>
            IF req[w].result \in SuccessResults
            THEN db = LedgerResult(db0, req[w].date, req[w].type, req[w].amount)
            ELSE req[w].result \in ValidationResults /\ db = db0

\* A chat command has recorded a payment in the January 2026 record that
\* was there before, as the HTTP endpoint does for the same date, kind and
\* amount.
C26_Witness ==
    \E w \in Workers :
        /\ Quiescent /\ received = 1 /\ req[w].pc = "done"
        /\ req[w].via = "chat" /\ req[w].result = "Recorded"
        /\ req[w].type = TRANSACTION_TYPE_PAYMENT
        /\ DocsOf(db0, 2026, "January") # << >>
        /\ db = LedgerResult(db0, << 2026, 1, 14 >>, TRANSACTION_TYPE_PAYMENT, 2)
        /\ chat[w].stage = "Sent"

\* ------------------------------------------------------------------ C27
\* The entries of an array that were not there when the behaviour started.
NewEntries(items, items0) == SubSeq(items, Len(items0) + 1, Len(items))

\* C27: once all concurrent requests on a month that had its record from
\* the start have finished, the record's arrays are the arrays it started
\* with followed by the entries of the requests that completed: the new
\* purchases add up to the amounts of the completed purchase requests, the
\* new payments to those of the completed payment requests, every new entry
\* carries a requested date and amount, and there are no more new entries
\* than requests.
C27_OneEntryPerCompletedRequest ==
    Quiescent =>
        \A k \in DatedKeys :
            DocsOf(db0, k[1], k[2]) # << >> =>
                LET doc0 == DocsOf(db0, k[1], k[2])[1]
                    doc == DocsOf(db, k[1], k[2])[1]
                    purchases == NewEntries(doc.daily_expenses, doc0.daily_expenses)
                    payments == NewEntries(doc.credits, doc0.credits)
                IN /\ Len(DocsOf(db, k[1], k[2])) = 1
                   /\ IsPrefix(doc0.daily_expenses, doc.daily_expenses)
                   /\ IsPrefix(doc0.credits, doc.credits)
                   /\ SumAmounts(purchases) = appended[k][TRANSACTION_TYPE_PURCHASE]
                   /\ SumAmounts(payments) = appended[k][TRANSACTION_TYPE_PAYMENT]
                   /\ \A n \in DOMAIN purchases :
                         purchases[n].amount > 0 /\ purchases[n].date \in JanuaryDates
                   /\ \A n \in DOMAIN payments :
                         payments[n].amount > 0 /\ payments[n].date \in JanuaryDates
                   /\ Len(purchases) + Len(payments) <= received

\* Two requests that were in flight together have finished on the January
\* 2026 record that was there from the start: a purchase of 2 and a payment
\* of 1 were added behind the purchase it held.
C27_Witness ==
    /\ Quiescent
    /\ \A w \in Workers : req[w].pc = "done" /\ req[w].result \in SuccessResults
    /\ DocsOf(db0, 2026, "January") # << >>
    /\ LET doc == DocsOf(db, 2026, "January")[1] IN
       /\ Len(doc.daily_expenses) = 2 /\ doc.daily_expenses[2].amount = 2
       /\ Len(doc.credits) = 1 /\ doc.credits[1].amount = 1

\* ------------------------------------------------------------------ C28
\* The entry a request appends.
OwnEntry(w) == [ date |-> req[w].date, amount |-> req[w].amount ]

\* The array of a record that entries of a kind go to.
ArrayOf(doc, type) ==
    IF type = TRANSACTION_TYPE_PURCHASE THEN doc.daily_expenses ELSE doc.credits

\* C28: in the step in which a request sets total_expense and balance, the
\* values written are the totals of the record as the request read it back:
\* that copy holds the request's own entry in the array of its kind, its
\* arrays are initial segments of the stored ones (what it lacks was
\* appended by other requests after the read), total_expense is the sum of
\* its purchases and balance is the previous month's stored balance plus
\* that sum minus the sum of its payments.
C28_SetWritesTotalsOfOwnRead ==
    [][ \A w \in Workers :
            req[w].pc = "set" /\ req'[w].pc = "final" =>
                LET read == req[w].updated_doc
                    stored == find_one(db'[Year(w)], MonthName(w))
                IN /\ Contains(ArrayOf(read, req[w].type), OwnEntry(w))
                   /\ IsPrefix(read.daily_expenses, stored.daily_expenses)
                   /\ IsPrefix(read.credits, stored.credits)
                   /\ stored.total_expense = SumAmounts(read.daily_expenses)
                   /\ stored.balance = StoredBalance(PreviousKey(<< Year(w), MonthName(w) >>))
                                         + SumAmounts(read.daily_expenses)
                                         - SumAmounts(read.credits) ]_vars

\* A request has just set totals that cover its own purchase of 1 but not
\* the purchase of 2 another request appended after the read.
C28_Witness ==
    \E w \in Workers :
        /\ req[w].pc = "final" /\ req[w].type = TRANSACTION_TYPE_PURCHASE /\ req[w].amount = 1
        /\ DocsOf(db0, 2026, "January") = << >>
        /\ LET doc == DocsOf(db, 2026, "January")[1] IN
           /\ doc.daily_expenses = << [ date |-> << 2026, 1, 15 >>, amount |-> 1 ],
                                      [ date |-> << 2026, 1, 15 >>, amount |-> 2 ] >>
           /\ doc.total_expense = 1

\* ------------------------------------------------------------------ C29
\* Whether the stored totals of a record are those of its arrays over the
\* balance its previous month has now.
TotalsAgree(y, doc) ==
    /\ doc.total_expense = SumAmounts(doc.daily_expenses)
    /\ doc.balance = StoredBalance(PreviousKey(<< y, doc.month >>))
                       + SumAmounts(doc.daily_expenses) - SumAmounts(doc.credits)

\* C29: when a request that ran alone has completed its append, the record
\* of its month has total_expense = sum of all its purchases and balance =
\* inherited balance + total_expense - sum of all its payments, whatever the
\* stored totals were before: stale after an interleaved recompute, stale
\* after a request that failed between its append and its set-fields step,
\* or not stale.
C29_NextAppendRepairs ==
    \A w \in Workers :
        Quiescent /\ req[w].pc = "done" /\ req[w].result \in SuccessResults =>
            /\ DocsOf(db, Year(w), MonthName(w)) # << >>
            /\ TotalsAgree(Year(w), DocsOf(db, Year(w), MonthName(w))[1])

\* A request failed after its append and left January 2026 with a purchase
\* that its totals did not cover; the next request, a payment, has
\* completed and the totals cover both.
C29_Witness ==
    \E w \in Workers :
        /\ Quiescent /\ received = 2
        /\ req[w].pc = "done" /\ req[w].result \in SuccessResults
        /\ req[w].type = TRANSACTION_TYPE_PAYMENT
        /\ DocsOf(db0, 2026, "January") = << >>
        /\ appended[<< 2026, "January" >>][TRANSACTION_TYPE_PURCHASE] = 0
        /\ DocsOf(db, 2026, "January") # << >>
        /\ LET doc == DocsOf(db, 2026, "January")[1] IN
           /\ Len(doc.daily_expenses) = 1 /\ Len(doc.credits) = 1
           /\ TotalsAgree(2026, doc)

\* ------------------------------------------------------------------ C30
\* The update a worker has handled carries a secret token that is present
\* and is not the configured secret.
WrongSecret(w) ==
    chat[w].update.secret # "none" /\ chat[w].update.secret # "WEBHOOK_SECRET"

OtherChat(w) == chat[w].update.chat_id # "CHAT_ID"

\* The update got as far as process_command.
Processed(w) == chat[w].stage \notin { "Idle", "Ignored" }

\* What the state shows of the update a worker has handled.
GateKept(w) ==
    /\ Processed(w) =>
          /\ ~WrongSecret(w)
          /\ ~OtherChat(w)
          /\ startswith(chat[w].update.text, "/")
    /\ WrongSecret(w) \/ OtherChat(w) =>
          /\ chat[w].sent = 0
          /\ req[w] = IdleRequest

\* A step that receives an update with a present but wrong secret token or
\* from another chat, or that follows it, leaves the store as it was.
RefusedStep ==
    \A w \in Workers :
        (chat[w].stage # "Idle" /\ (WrongSecret(w) \/ OtherChat(w)))' => db' = db

\* C30: handle_webhook processes the command of an update only when the
\* update comes from the configured chat, its text starts with "/" and its
\* secret token is absent or equal to the configured secret; an update with
\* a present but wrong secret token, or from another chat, never changes
\* the store, asks nothing of the ledger and causes no message to be sent.
C30_OnlyAuthorizedCommands ==
    /\ [](\A w \in Workers : chat[w].stage # "Idle" => GateKept(w))
    /\ [][RefusedStep]_vars

====
